---------------------------- MODULE Spec2Model ----------------------------
(***************************************************************************)
(* A model of the Hackfest dashboard's intent dispatcher and batch         *)
(* orchestrator (src/crewai_agent.py) together with the Record Store       *)
(* helpers they call (src/database_operations.py), the extraction helpers  *)
(* (src/receipt_processor.py, src/audio_processor.py) and the Streamlit    *)
(* batch of src/refund_processing.py.                                      *)
(*                                                                         *)
(* Text is a sequence of one-character strings, so that Python's           *)
(* substring test (`in`), str.lower() and the regular expressions of the   *)
(* dispatcher are computed character by character.                         *)
(***************************************************************************)
EXTENDS Integers, Sequences, FiniteSets, TLC

VARIABLES
    employees,   \* table 'employeees': sequence of rows in store order
    refunds,     \* table 'refund_requests': sequence of rows in store order
    env,         \* behaviour of the collaborators (store, storage, AI services)
    pc,          \* "idle" | "done": position of the caller of the dispatcher
    last,        \* what the last completed operation did and returned
    hist,        \* the batch runs completed so far, oldest first
    conn         \* DatabaseClient.conn and the state of its transaction

vars == <<employees, refunds, env, pc, last, hist, conn>>

(***************************************************************************)
(* Bounds of the model.                                                    *)
(***************************************************************************)
\* an instruction is at most MaxWords phrases of the vocabulary
MaxWords == 2
\* at most MaxRuns batch runs are made in one behaviour
MaxRuns == 2
\* the first MaxVaried receipts of a run take every combination of kinds
MaxVaried == 2

(***************************************************************************)
(* Text.                                                                   *)
(***************************************************************************)
UpperAlpha ==
    <<"A","B","C","D","E","F","G","H","I","J","K","L","M",
      "N","O","P","Q","R","S","T","U","V","W","X","Y","Z">>

LowerAlpha ==
    <<"a","b","c","d","e","f","g","h","i","j","k","l","m",
      "n","o","p","q","r","s","t","u","v","w","x","y","z">>

DigitChars == <<"0","1","2","3","4","5","6","7","8","9">>

Range(s) == {s[i] : i \in DOMAIN s}
NoRepeat(seq) == \A i, j \in DOMAIN seq : seq[i] = seq[j] => i = j

\* str.lower() on one character
LowerChar(c) ==
    IF c \in Range(UpperAlpha)
    THEN LowerAlpha[CHOOSE i \in DOMAIN UpperAlpha : UpperAlpha[i] = c]
    ELSE c

\* str.lower()
Lower(s) == [i \in DOMAIN s |-> LowerChar(s[i])]

\* the pattern pat occurs in s at position i
MatchAt(s, pat, i) ==
    /\ i >= 1
    /\ i + Len(pat) - 1 <= Len(s)
    /\ \A k \in 1..Len(pat) : s[i + k - 1] = pat[k]

\* Python's `pat in s`
Contains(s, pat) == \E i \in 1..(Len(s) + 1) : MatchAt(s, pat, i)

IsDigit(c) == c \in Range(DigitChars)
IsLetter(c) == c \in Range(LowerAlpha) \/ c \in Range(UpperAlpha)
IsSpace(c) == c \in {" ", "\t", "\n", "\r"}
IsQuote(c) == c \in {"'", "\""}

DigitVal(c) == (CHOOSE i \in DOMAIN DigitChars : DigitChars[i] = c) - 1

\* int() of a string of digits; float() of it is the same number
RECURSIVE ParseInt(_)
ParseInt(ds) ==
    IF ds = <<>> THEN 0
    ELSE 10 * ParseInt(SubSeq(ds, 1, Len(ds) - 1)) + DigitVal(ds[Len(ds)])

\* last position of the run of characters satisfying IsDigit that starts at i
RECURSIVE DigitRunEnd(_, _)
DigitRunEnd(s, i) ==
    IF i < Len(s) /\ IsDigit(s[i + 1]) THEN DigitRunEnd(s, i + 1) ELSE i

\* re.search(r'\d+', s): <<>> when there is no match, else <<the matched text>>
SearchDigits(s) ==
    IF \E i \in DOMAIN s : IsDigit(s[i])
    THEN LET start == CHOOSE i \in DOMAIN s :
                          /\ IsDigit(s[i])
                          /\ \A j \in 1..(i - 1) : ~IsDigit(s[j])
         IN  <<SubSeq(s, start, DigitRunEnd(s, start))>>
    ELSE <<>>

\* last position of the run of white space that starts at i
RECURSIVE SpaceRunEnd(_, _)
SpaceRunEnd(s, i) ==
    IF i < Len(s) /\ IsSpace(s[i + 1]) THEN SpaceRunEnd(s, i + 1) ELSE i

KW_with == <<"w","i","t","h">>

\* The regular expression  with\s+["']?([a-zA-Z])["']?  matched at position i:
\* <<>> when it does not match there, else <<group 1>>.  \s+ is greedy and
\* giving white space back never helps (a white-space character is neither
\* a quote nor a letter), so the letter sits right after the run, or after
\* one quote that follows the run.
LetterMatchAt(s, i) ==
    IF MatchAt(s, KW_with, i) /\ i + 4 <= Len(s) /\ IsSpace(s[i + 4])
    THEN LET e == SpaceRunEnd(s, i + 4)
         IN  IF e + 1 <= Len(s) /\ IsLetter(s[e + 1]) THEN <<s[e + 1]>>
             ELSE IF e + 2 <= Len(s) /\ IsQuote(s[e + 1]) /\ IsLetter(s[e + 2])
                  THEN <<s[e + 2]>>
                  ELSE <<>>
    ELSE <<>>

\* re.search of that expression: the leftmost position where it matches
SearchLetter(s) ==
    IF \E i \in DOMAIN s : LetterMatchAt(s, i) # <<>>
    THEN LetterMatchAt(s, CHOOSE i \in DOMAIN s :
                              /\ LetterMatchAt(s, i) # <<>>
                              /\ \A j \in 1..(i - 1) : LetterMatchAt(s, j) = <<>>)
    ELSE <<>>


(***************************************************************************)
(* Values.  None is the empty sequence and a present value v is <<v>>, so  *)
(* that an Optional never compares a number with a string.                 *)
(***************************************************************************)
None == <<>>
Some(v) == <<v>>

\* the bucket of database_operations.STORAGE_BUCKET
STORAGE_BUCKET == "reciept"

\* the public URL of file refund_req{n}.png in a bucket; NoUrl is NULL / ""
PublicUrl(bucket, n) == [bucket |-> bucket, file |-> n]
NoUrl == [bucket |-> "", file |-> 0]
AudioUrl(n) == [bucket |-> "audio", file |-> n]

\* self.conn = None: the client holds no connection object
NoConn == [handle |-> "none", txn |-> "idle"]

\* a function result: a returned value, or an exception leaving the function
Ret(v) == [raised |-> FALSE, val |-> v]
Raise == [raised |-> TRUE, val |-> None]

(***************************************************************************)
(* The two tables.                                                         *)
(***************************************************************************)
Employee(id, name, age, salary) ==
    [id |-> id, name |-> name, age |-> age, salary |-> salary]

EmployeePool ==
    << Employee(1, <<"J","o">>, 41, 50000),
       Employee(7, <<"j","i","m">>, 30, 42),
       Employee(3, <<"A","n","a">>, 25, 90000) >>

EmployeeTables == { EmployeePool, <<EmployeePool[2]>>, <<>> }

RefundRow(id, amount, image_url, audio_url) ==
    [id |-> id, name |-> "request", amount |-> amount, image_url |-> image_url,
     audio_url |-> audio_url, status |-> "pending"]

\* the rows as provisioned: no amount, no image; rows 2, 5 and 11 have audio
FreshRow(id) ==
    RefundRow(id, None, NoUrl, IF id \in {2, 5, 11} THEN AudioUrl(id) ELSE NoUrl)

\* a row an earlier run has filled in
FilledRow(id) ==
    RefundRow(id, Some(999), PublicUrl("old", id),
              IF id \in {2, 5, 11} THEN AudioUrl(id) ELSE NoUrl)

RefundTables ==
    { [i \in 1..11 |-> FreshRow(i)],
      [i \in 1..8 |-> IF i \in {3, 5} THEN FilledRow(i) ELSE FreshRow(i)],
      <<>> }

AudioIds == {2, 5, 11}

RowIds(refs) == {refs[k].id : k \in DOMAIN refs}

(***************************************************************************)
(* The collaborators.  A call of the supabase client, of the storage       *)
(* bucket or of an AI service either answers ("ok") or throws inside the   *)
(* helper that makes it ("throws": the helper's own except clause turns it *)
(* into the helper's failure value).  "raises" is an exception that leaves *)
(* the helper: the helpers as written catch every Exception, so this       *)
(* happens only when a helper is replaced (a stub); it is modelled so that *)
(* the except clauses of the callers are exercised.                        *)
(***************************************************************************)
CallOutcomes == {"ok", "throws", "raises"}

\* the receipts of process_all_receipts: range(1, 11)
FirstReceipt == 1
LastReceipt == 10
ReceiptIds == FirstReceipt..LastReceipt

\* what happens to receipt n:
\*   ok              every stage succeeds, the vision model reads Amount(n)
\*   zero            every stage succeeds, the vision model reads 0
\*   url_throws      the storage client throws in get_storage_file_url
\*   url_raises      get_storage_file_url raises
\*   no_amount       extract_amount_from_receipt returns None
\*   extract_raises  extract_amount_from_receipt raises
\*   update_throws   the store throws in update_refund_row, nothing written
\*   update_raises   update_refund_row raises, nothing written
ReceiptFailures ==
    {"url_throws", "url_raises", "no_amount", "extract_raises",
     "update_throws", "update_raises"}
ReceiptKinds == {"ok", "zero"} \cup ReceiptFailures

\* the number the (deterministic) vision stub reads on receipt n, in cents
Amount(n) == 100 * n + 50

\* what happens to the audio of row id:
\*   ok              downloaded, transcribed and summarised
\*   download_fails  download_audio_file returns ""
\*   llm_throws      the transcription or the summary call throws
\*   raises          transcribe_and_summarize_audio raises
AudioKinds == {"ok", "download_fails", "llm_throws", "raises"}

AllOk == [n \in ReceiptIds |-> "ok"]
AllAudioOk == [id \in AudioIds |-> "ok"]

(***************************************************************************)
(* Record Store helpers (src/database_operations.py).  Each takes the      *)
(* table and the outcome o of its one supabase call and returns what the   *)
(* helper returns.                                                         *)
(***************************************************************************)
\* a call of a helper: its result, unless an exception leaves the helper
Call(o, result) == IF o = "raises" THEN Raise ELSE Ret(result)

StartsWithLetter(name, letter) ==
    /\ Len(name) >= 1
    /\ LowerChar(name[1]) = LowerChar(letter)

\* get_all_employees with .limit(1) on its select
get_all_employees_limit_1(emps, o) ==
    IF o = "throws" \/ emps = <<>> THEN <<>> ELSE <<emps[1]>>

get_all_employees(emps, o) ==
    IF o = "throws" THEN <<>> ELSE emps

get_employee_by_id(emps, employee_id, o) ==
    IF o = "throws" THEN None
    ELSE LET data == SelectSeq(emps, LAMBDA r : r.id = employee_id)
         IN  IF data # <<>> THEN Some(data[1]) ELSE None

\* get_employees_by_salary selecting a range (gte) in place of equality
get_employees_by_salary_gte(emps, salary, o) ==
    IF o = "throws" THEN <<>>
    ELSE SelectSeq(emps, LAMBDA r : r.salary >= salary)

get_employees_by_salary(emps, salary, o) ==
    IF o = "throws" THEN <<>>
    ELSE SelectSeq(emps, LAMBDA r : r.salary = salary)

\* order('salary', desc=True).limit(1); among equal salaries the store's
\* order decides, taken here as the first row of the table
get_employee_highest_salary(emps, o) ==
    IF o = "throws" THEN None
    ELSE LET data == SelectSeq(emps,
                         LAMBDA r : \A k \in DOMAIN emps : emps[k].salary <= r.salary)
         IN  IF data # <<>> THEN Some(data[1]) ELSE None

\* get_employees_by_age_greater_than with gte in place of gt
get_employees_by_age_gte(emps, age, o) ==
    IF o = "throws" THEN <<>>
    ELSE SelectSeq(emps, LAMBDA r : r.age >= age)

get_employees_by_age_greater_than(emps, age, o) ==
    IF o = "throws" THEN <<>>
    ELSE SelectSeq(emps, LAMBDA r : r.age > age)

get_employees_by_name_start(emps, letter, o) ==
    IF o = "throws" THEN <<>>
    ELSE SelectSeq(emps, LAMBDA r : StartsWithLetter(r.name, letter))

get_storage_file_url(n, o) ==
    IF o = "throws" THEN NoUrl ELSE PublicUrl(STORAGE_BUCKET, n)

\* update_refund_row without .eq('id', row_id): every row is overwritten
update_refund_row_no_filter(refs, row_id, image_url, amount, o) ==
    IF o = "throws" THEN [ok |-> FALSE, refunds |-> refs]
    ELSE [ok |-> \E k \in DOMAIN refs : refs[k].id = row_id,
          refunds |-> [k \in DOMAIN refs |->
                          [refs[k] EXCEPT !.image_url = image_url,
                                          !.amount = Some(amount)]]]

\* update_refund_row as an upsert: a missing row is created
update_refund_row_upsert(refs, row_id, image_url, amount, o) ==
    IF o = "throws" THEN [ok |-> FALSE, refunds |-> refs]
    ELSE IF \E k \in DOMAIN refs : refs[k].id = row_id
    THEN [ok |-> TRUE,
          refunds |-> [k \in DOMAIN refs |->
                          IF refs[k].id = row_id
                          THEN [refs[k] EXCEPT !.image_url = image_url,
                                               !.amount = Some(amount)]
                          ELSE refs[k]]]
    ELSE [ok |-> TRUE,
          refunds |-> Append(refs, [FreshRow(row_id) EXCEPT
                                        !.image_url = image_url,
                                        !.amount = Some(amount)])]

\* update_refund_row reporting success only when the row's content changed
update_refund_row_changed_only(refs, row_id, image_url, amount, o) ==
    IF o = "throws" THEN [ok |-> FALSE, refunds |-> refs]
    ELSE [ok |-> \E k \in DOMAIN refs :
                    /\ refs[k].id = row_id
                    /\ (refs[k].image_url # image_url \/ refs[k].amount # Some(amount)),
          refunds |-> [k \in DOMAIN refs |->
                          IF refs[k].id = row_id
                          THEN [refs[k] EXCEPT !.image_url = image_url,
                                               !.amount = Some(amount)]
                          ELSE refs[k]]]

\* update(data).eq('id', row_id): [ok |-> bool(response.data), refunds |-> table]
update_refund_row(refs, row_id, image_url, amount, o) ==
    IF o = "throws" THEN [ok |-> FALSE, refunds |-> refs]
    ELSE [ok |-> \E k \in DOMAIN refs : refs[k].id = row_id,
          refunds |-> [k \in DOMAIN refs |->
                          IF refs[k].id = row_id
                          THEN [refs[k] EXCEPT !.image_url = image_url,
                                               !.amount = Some(amount)]
                          ELSE refs[k]]]

get_all_audio_urls(refs, o) ==
    IF o = "throws" THEN <<>>
    ELSE LET rows == SelectSeq(refs, LAMBDA r : r.audio_url # NoUrl)
         IN  [k \in DOMAIN rows |->
                 [id |-> rows[k].id, audio_url |-> rows[k].audio_url]]

(***************************************************************************)
(* Extraction helpers.                                                     *)
(***************************************************************************)
\* extract_amount_from_receipt answering 0 where it has no number
extract_amount_zero_on_failure(image_url, reading) ==
    IF reading = None THEN Some(0) ELSE reading

\* src/receipt_processor.py: None when the download, the model or the
\* conversion fails, else the number read; reading is what the vision
\* model's reply yields for this image
extract_amount_from_receipt(image_url, reading) == reading

\* the deterministic transcription and summary stubs
Transcript(url) == [transcript_of |-> url.file]
Summary(url) == [summary_of |-> url.file]

\* src/audio_processor.py
transcribe_and_summarize_audio(audio_url, kind) ==
    IF kind = "download_fails"
    THEN [success |-> FALSE, error |-> "Failed to download audio file"]
    ELSE IF kind = "llm_throws"
         THEN [success |-> FALSE, error |-> "str(e)"]
         ELSE [success |-> TRUE, transcription |-> Transcript(audio_url),
               summary |-> Summary(audio_url)]

\* how a receipt's kind sets the outcome of each of its three calls
UrlOutcome(kind) ==
    IF kind = "url_throws" THEN "throws"
    ELSE IF kind = "url_raises" THEN "raises" ELSE "ok"
ExtractOutcome(kind) == IF kind = "extract_raises" THEN "raises" ELSE "ok"
UpdateOutcome(kind) ==
    IF kind = "update_throws" THEN "throws"
    ELSE IF kind = "update_raises" THEN "raises" ELSE "ok"
Reading(kind, n) ==
    IF kind = "no_amount" THEN None
    ELSE IF kind = "zero" THEN Some(0) ELSE Some(Amount(n))

(***************************************************************************)
(* Results.  An envelope is {response, data}; the response is its format   *)
(* string with the values put into it, data is None or a list.             *)
(***************************************************************************)
Response(fmt, nums, chars) == [fmt |-> fmt, nums |-> nums, chars |-> chars]
DataNone == [isNone |-> TRUE, rows |-> <<>>]
DataList(rows) == [isNone |-> FALSE, rows |-> rows]
Envelope(response, data) == [response |-> response, data |-> data]

\* what an operation did: the envelope it returned (or raised = TRUE when an
\* exception reached its caller), the dispatcher branch taken (0: none), the
\* helpers called, the candidates visited, and the refund table it leaves
Outcome(envelope, raised, branch, calls, attempted, refs) ==
    [envelope |-> envelope, raised |-> raised, branch |-> branch,
     calls |-> calls, attempted |-> attempted, refunds |-> refs]

NoEnvelope == Envelope(Response("", <<>>, <<>>), DataNone)

(***************************************************************************)
(* Batch orchestrator (src/crewai_agent.py).  The loops are folds over the *)
(* candidates; acc holds the locals results, processed and failed, the     *)
(* refund table as written so far, the candidates visited and the helpers  *)
(* called.                                                                 *)
(***************************************************************************)
NewBatch(refs) ==
    [results |-> <<>>, processed |-> 0, failed |-> 0, refunds |-> refs,
     attempted |-> <<>>, calls |-> {}]

\* a failure path that forgets failed += 1
ItemFailedUncounted(acc, calls) == [acc EXCEPT !.calls = @ \cup calls]

\* failed += 1; continue
ItemFailed(acc, calls) ==
    [acc EXCEPT !.failed = @ + 1, !.calls = @ \cup calls]

FileName(n) == [stem |-> "refund_req", n |-> n, ext |-> "png"]

\* one iteration of the loop of process_all_receipts, for i = n
ReceiptItem(acc, n, e) ==
    LET kind == e.receipt[n]
        visited == [acc EXCEPT !.attempted = Append(@, n)]
        url == Call(UrlOutcome(kind), get_storage_file_url(n, UrlOutcome(kind)))
    IN  IF url.raised THEN ItemFailed(visited, {"get_storage_file_url"})
        ELSE IF url.val = NoUrl THEN ItemFailed(visited, {"get_storage_file_url"})
        ELSE
        LET amount == Call(ExtractOutcome(kind),
                           extract_amount_from_receipt(url.val, Reading(kind, n)))
            calls2 == {"get_storage_file_url", "extract_amount_from_receipt"}
        IN  IF amount.raised THEN ItemFailed(visited, calls2)
            ELSE IF amount.val = None THEN ItemFailed(visited, calls2)
            ELSE
            LET upd == Call(UpdateOutcome(kind),
                            update_refund_row(acc.refunds, n, url.val,
                                              amount.val[1], UpdateOutcome(kind)))
                calls3 == calls2 \cup {"update_refund_row"}
            IN  IF upd.raised THEN ItemFailed(visited, calls3)
                ELSE IF upd.val.ok
                THEN [visited EXCEPT
                         !.results = Append(@, [row |-> n,
                                                file_name |-> FileName(n),
                                                amount |-> amount.val[1],
                                                url |-> url.val,
                                                status |-> "processed"]),
                         !.processed = @ + 1,
                         !.refunds = upd.val.refunds,
                         !.calls = @ \cup calls3]
                ELSE ItemFailed([visited EXCEPT !.refunds = upd.val.refunds], calls3)

\* the loop leaving at the first receipt that fails
RECURSIVE ReceiptLoopAbort(_, _, _)
ReceiptLoopAbort(acc, n, e) ==
    IF n > LastReceipt THEN acc
    ELSE LET a == ReceiptItem(acc, n, e)
         IN  IF a.failed > acc.failed THEN a ELSE ReceiptLoopAbort(a, n + 1, e)

\* for i in range(n, 11)
RECURSIVE ReceiptLoop(_, _, _)
ReceiptLoop(acc, n, e) ==
    IF n > LastReceipt THEN acc
    ELSE ReceiptLoop(ReceiptItem(acc, n, e), n + 1, e)

process_all_receipts(refs, e) ==
    LET acc == ReceiptLoop(NewBatch(refs), FirstReceipt, e)
    IN  Outcome(Envelope(Response("Successfully processed {} receipts and updated refunds table. {} failed.",
                                  <<acc.processed, acc.failed>>, <<>>),
                         DataList(acc.results)),
                FALSE, 0, acc.calls, acc.attempted, acc.refunds)

\* an iteration that clears the audio_url of a row once it is summarised
AudioItemConsuming(acc, audio_file, e) ==
    LET kind == e.audio[audio_file.id]
        visited == [acc EXCEPT !.attempted = Append(@, audio_file.id),
                               !.calls = @ \cup {"transcribe_and_summarize_audio"}]
        result == Call(IF kind = "raises" THEN "raises" ELSE "ok",
                       transcribe_and_summarize_audio(audio_file.audio_url, kind))
    IN  IF result.raised THEN ItemFailed(visited, {})
        ELSE IF result.val.success
        THEN [visited EXCEPT
                 !.results = Append(@, [id |-> audio_file.id,
                                        audio_url |-> audio_file.audio_url,
                                        summary |-> result.val.summary,
                                        status |-> "processed"]),
                 !.processed = @ + 1,
                 !.refunds = [k \in DOMAIN @ |->
                                 IF @[k].id = audio_file.id
                                 THEN [@[k] EXCEPT !.audio_url = NoUrl]
                                 ELSE @[k]]]
        ELSE [visited EXCEPT
                 !.results = Append(@, [id |-> audio_file.id,
                                        audio_url |-> audio_file.audio_url,
                                        error |-> result.val.error,
                                        status |-> "failed"]),
                 !.failed = @ + 1]

\* one iteration of the loop of process_all_audio_files
AudioItem(acc, audio_file, e) ==
    LET kind == e.audio[audio_file.id]
        visited == [acc EXCEPT !.attempted = Append(@, audio_file.id),
                               !.calls = @ \cup {"transcribe_and_summarize_audio"}]
        result == Call(IF kind = "raises" THEN "raises" ELSE "ok",
                       transcribe_and_summarize_audio(audio_file.audio_url, kind))
    IN  IF result.raised THEN ItemFailed(visited, {})
        ELSE IF result.val.success
        THEN [visited EXCEPT
                 !.results = Append(@, [id |-> audio_file.id,
                                        audio_url |-> audio_file.audio_url,
                                        summary |-> result.val.summary,
                                        status |-> "processed"]),
                 !.processed = @ + 1]
        ELSE [visited EXCEPT
                 !.results = Append(@, [id |-> audio_file.id,
                                        audio_url |-> audio_file.audio_url,
                                        error |-> result.val.error,
                                        status |-> "failed"]),
                 !.failed = @ + 1]

\* for audio_file in audio_files[k:]
RECURSIVE AudioLoop(_, _, _, _)
AudioLoop(acc, audio_files, k, e) ==
    IF k > Len(audio_files) THEN acc
    ELSE AudioLoop(AudioItem(acc, audio_files[k], e), audio_files, k + 1, e)

process_all_audio_files(refs, e) ==
    LET audio_files == Call(e.audioList, get_all_audio_urls(refs, e.audioList))
    IN  IF audio_files.raised
        THEN Outcome(Envelope(Response("Error processing audio files: {}", <<>>, <<>>),
                              DataList(<<>>)),
                     FALSE, 0, {"get_all_audio_urls"}, <<>>, refs)
        ELSE LET acc == AudioLoop(NewBatch(refs), audio_files.val, 1, e)
             IN  Outcome(Envelope(Response("Successfully processed {} audio files. {} failed.",
                                           <<acc.processed, acc.failed>>, <<>>),
                                  DataList(acc.results)),
                         FALSE, 0, acc.calls \cup {"get_all_audio_urls"},
                         acc.attempted, acc.refunds)

\* src/audio_processor.py, process_all_audio_files(audio_urls): the same loop
\* over a list it is given; a processed entry also carries the transcription
ProcessorAudioItem(acc, audio_file, e) ==
    LET kind == e.audio[audio_file.id]
        visited == [acc EXCEPT !.attempted = Append(@, audio_file.id),
                               !.calls = @ \cup {"transcribe_and_summarize_audio"}]
        result == Call(IF kind = "raises" THEN "raises" ELSE "ok",
                       transcribe_and_summarize_audio(audio_file.audio_url, kind))
    IN  IF result.raised THEN ItemFailed(visited, {})
        ELSE IF result.val.success
        THEN [visited EXCEPT
                 !.results = Append(@, [id |-> audio_file.id,
                                        audio_url |-> audio_file.audio_url,
                                        transcription |-> result.val.transcription,
                                        summary |-> result.val.summary,
                                        status |-> "processed"]),
                 !.processed = @ + 1]
        ELSE [visited EXCEPT
                 !.results = Append(@, [id |-> audio_file.id,
                                        audio_url |-> audio_file.audio_url,
                                        error |-> result.val.error,
                                        status |-> "failed"]),
                 !.failed = @ + 1]

RECURSIVE ProcessorAudioLoop(_, _, _, _)
ProcessorAudioLoop(acc, audio_urls, k, e) ==
    IF k > Len(audio_urls) THEN acc
    ELSE ProcessorAudioLoop(ProcessorAudioItem(acc, audio_urls[k], e),
                            audio_urls, k + 1, e)

audio_processor_process_all_audio_files(audio_urls, refs, e) ==
    LET acc == ProcessorAudioLoop(NewBatch(refs), audio_urls, 1, e)
    IN  Outcome(Envelope(Response("Successfully processed {} audio files. {} failed.",
                                  <<acc.processed, acc.failed>>, <<>>),
                         DataList(acc.results)),
                FALSE, 0, acc.calls, acc.attempted, acc.refunds)

(***************************************************************************)
(* The "Process All Images" batch of RefundProcessing.display_image_analysis *)
(* (src/refund_processing.py).  db_client is a SupabaseClient (bucket      *)
(* "receipts") or a DatabaseClient, whose list_files() returns [].         *)
(***************************************************************************)
\* SupabaseClient.bucket_name
RECEIPTS_BUCKET == "receipts"

\* db_client.list_files(), filtered for image files
ImageFiles(client) ==
    IF client = "supabase"
    THEN [k \in 1..(LastReceipt - FirstReceipt + 1) |-> FileName(FirstReceipt + k - 1)]
    ELSE <<>>

\* db_client.get_storage_url(file_name)
get_storage_url(n, o) ==
    IF o = "throws" THEN NoUrl ELSE PublicUrl(RECEIPTS_BUCKET, n)

\* RefundProcessing.extract_amount_from_receipt: a number, or None; every
\* exception is caught inside the method
RefundProcessing_extract_amount_from_receipt(reading, o) ==
    IF o = "raises" THEN None ELSE reading

\* db_client.update_refund_request(request_id, request_data): the updated
\* row or None, and the table
update_refund_request(refs, request_id, image_url, amount, o) ==
    IF o = "throws" THEN [row |-> None, refunds |-> refs]
    ELSE LET new == [k \in DOMAIN refs |->
                        IF refs[k].id = request_id
                        THEN [refs[k] EXCEPT !.image_url = image_url,
                                             !.amount = Some(amount)]
                        ELSE refs[k]]
             hit == SelectSeq(new, LAMBDA r : r.id = request_id)
         IN  [row |-> IF hit # <<>> THEN Some(hit[1]) ELSE None, refunds |-> new]

\* one iteration of the loop over image_files; session is
\* st.session_state.refund_requests
ImageItem(acc, file, session, e) ==
    LET n == file.n
        kind == e.receipt[n]
        visited == [acc EXCEPT !.attempted = Append(@, n),
                               !.calls = @ \cup {"get_storage_url"}]
        file_url == get_storage_url(n, UrlOutcome(kind))
    IN  IF file_url = NoUrl THEN visited
        ELSE IF kind = "url_raises" THEN visited          \* requests.get raises
        ELSE
        LET amount == RefundProcessing_extract_amount_from_receipt(
                          Reading(kind, n), ExtractOutcome(kind))
        IN  IF amount = None \/ amount = Some(0) THEN visited    \* if not amount
            ELSE IF file.stem # "refund_req" THEN visited
            ELSE IF ~\E k \in DOMAIN session : session[k].id = n THEN visited
            ELSE IF kind = "update_raises"
            THEN [visited EXCEPT !.calls = @ \cup {"update_refund_request"}]
            ELSE LET upd == update_refund_request(acc.refunds, n, file_url,
                                                  amount[1], UpdateOutcome(kind))
                 IN  [visited EXCEPT !.refunds = upd.refunds,
                                     !.calls = @ \cup {"update_refund_request"}]

RECURSIVE ImageLoop(_, _, _, _, _)
ImageLoop(acc, image_files, k, session, e) ==
    IF k > Len(image_files) THEN acc
    ELSE ImageLoop(ImageItem(acc, image_files[k], session, e),
                   image_files, k + 1, session, e)

process_all_images(client, session, refs, e) ==
    LET acc == ImageLoop(NewBatch(refs), ImageFiles(client), 1, session, e)
    IN  Outcome(NoEnvelope, FALSE, 0, acc.calls \cup {"list_files"},
                acc.attempted, acc.refunds)

(***************************************************************************)
(* Intent dispatcher (src/crewai_agent.py, execute_database_operation).    *)
(***************************************************************************)
KW_audio == <<"a","u","d","i","o">>
KW_summary == <<"s","u","m","m","a","r","y">>
KW_get_all_the_urls == <<"g","e","t"," ","a","l","l"," ","t","h","e"," ","u","r","l","s">>
KW_refund_req == <<"r","e","f","u","n","d","_","r","e","q">>
KW_all_employees == <<"a","l","l"," ","e","m","p","l","o","y","e","e","s">>
KW_list_all == <<"l","i","s","t"," ","a","l","l">>
KW_highest_salary == <<"h","i","g","h","e","s","t"," ","s","a","l","a","r","y">>
KW_salary == <<"s","a","l","a","r","y">>
KW_is == <<"i","s">>
KW_equals == <<"e","q","u","a","l","s">>
KW_eq == <<"=">>
KW_age_greater_than == <<"a","g","e"," ","g","r","e","a","t","e","r"," ","t","h","a","n">>
KW_older_than == <<"o","l","d","e","r"," ","t","h","a","n">>
KW_starts_with == <<"s","t","a","r","t","s"," ","w","i","t","h">>
KW_beginning_with == <<"b","e","g","i","n","n","i","n","g"," ","w","i","t","h">>
KW_id == <<"i","d">>

\* the conditions of the if / elif chain, on the lowercased text
IsAudioBatch(q) == Contains(q, KW_audio) /\ Contains(q, KW_summary)
IsReceiptBatch(q) == Contains(q, KW_get_all_the_urls) /\ Contains(q, KW_refund_req)
IsListAll(q) == Contains(q, KW_all_employees) \/ Contains(q, KW_list_all)
IsHighestSalary(q) == Contains(q, KW_highest_salary)
IsSalaryEquals(q) ==
    /\ Contains(q, KW_salary)
    /\ \E x \in {KW_is, KW_equals, KW_eq} : Contains(q, x)
IsAgeGreater(q) == Contains(q, KW_age_greater_than) \/ Contains(q, KW_older_than)
IsNameStart(q) == Contains(q, KW_starts_with) \/ Contains(q, KW_beginning_with)
IsById(q) == Contains(q, KW_id)

NotUnderstood ==
    Envelope(Response("I couldn't understand the query. Please try rephrasing it.",
                      <<>>, <<>>),
             DataNone)

ErrorEnvelope ==
    Envelope(Response("Error executing operation: {}", <<>>, <<>>), DataNone)

\* a branch that made one employee query: the helper's result r (a Call)
\* becomes the envelope, or the exception leaves the try body
Answer(r, response, data, branch, helper, refs) ==
    IF r.raised
    THEN Outcome(NoEnvelope, TRUE, branch, {helper}, <<>>, refs)
    ELSE Outcome(Envelope(response, data), FALSE, branch, {helper}, <<>>, refs)

\* FallThrough answering with an empty list instead of None
FallThroughEmptyList(b, refs) ==
    Outcome(Envelope(NotUnderstood.response, DataList(<<>>)), FALSE, b, {}, <<>>, refs)

\* the final return of the try body, reached from branch b
FallThrough(b, refs) == Outcome(NotUnderstood, FALSE, b, {}, <<>>, refs)

\* rule 3 running on into the receipts batch before it answers
ListAllBranchAlsoReceipts(emps, refs, e) ==
    LET r == Call(e.empRead, get_all_employees(emps, e.empRead))
    IN  Answer(r, Response("Here are all employees:", <<>>, <<>>),
               DataList(r.val), 3, "get_all_employees",
               process_all_receipts(refs, e).refunds)

\* rule 3.  For rules 4 and 8, `[data] if data else []` of an Optional row is
\* the Optional itself read as a list: <<row>> or <<>>.
ListAllBranch(emps, refs, e) ==
    LET r == Call(e.empRead, get_all_employees(emps, e.empRead))
    IN  Answer(r, Response("Here are all employees:", <<>>, <<>>),
               DataList(r.val), 3, "get_all_employees", refs)

HighestSalaryBranch(emps, refs, e) ==
    LET r == Call(e.empRead, get_employee_highest_salary(emps, e.empRead))
    IN  Answer(r, Response("Here is the employee with the highest salary:",
                           <<>>, <<>>),
               DataList(r.val), 4, "get_employee_highest_salary", refs)

SalaryBranch(q, emps, refs, e) ==
    LET salary_match == SearchDigits(q)
    IN  IF salary_match # <<>>
        THEN LET salary == ParseInt(salary_match[1])
                 r == Call(e.empRead,
                           get_employees_by_salary(emps, salary, e.empRead))
             IN  Answer(r, Response("Here are employees with salary {}:",
                                    <<salary>>, <<>>),
                        DataList(r.val), 5, "get_employees_by_salary", refs)
        ELSE FallThrough(5, refs)

AgeBranch(q, emps, refs, e) ==
    LET age_match == SearchDigits(q)
    IN  IF age_match # <<>>
        THEN LET age == ParseInt(age_match[1])
                 r == Call(e.empRead,
                           get_employees_by_age_greater_than(emps, age, e.empRead))
             IN  Answer(r, Response("Here are employees older than {}:",
                                    <<age>>, <<>>),
                        DataList(r.val), 6,
                        "get_employees_by_age_greater_than", refs)
        ELSE FallThrough(6, refs)

\* rule 7 going on to the id rule when it finds no letter
NameBranchThenId(q, emps, refs, e) ==
    LET letter_match == SearchLetter(q)
        id_match == SearchDigits(q)
    IN  IF letter_match # <<>>
        THEN LET letter == letter_match[1]
                 r == Call(e.empRead,
                           get_employees_by_name_start(emps, letter, e.empRead))
             IN  Answer(r, Response("Here are employees whose names start with '{}':",
                                    <<>>, <<letter>>),
                        DataList(r.val), 7, "get_employees_by_name_start", refs)
        ELSE IF Contains(q, KW_id) /\ id_match # <<>>
        THEN LET employee_id == ParseInt(id_match[1])
                 r == Call(e.empRead,
                           get_employee_by_id(emps, employee_id, e.empRead))
             IN  Answer(r, Response("Here is the employee with ID {}:",
                                    <<employee_id>>, <<>>),
                        DataList(r.val), 8, "get_employee_by_id", refs)
        ELSE FallThrough(7, refs)

NameBranch(q, emps, refs, e) ==
    LET letter_match == SearchLetter(q)
    IN  IF letter_match # <<>>
        THEN LET letter == letter_match[1]
                 r == Call(e.empRead,
                           get_employees_by_name_start(emps, letter, e.empRead))
             IN  Answer(r, Response("Here are employees whose names start with '{}':",
                                    <<>>, <<letter>>),
                        DataList(r.val), 7, "get_employees_by_name_start", refs)
        ELSE FallThrough(7, refs)

IdBranch(q, emps, refs, e) ==
    LET id_match == SearchDigits(q)
    IN  IF id_match # <<>>
        THEN LET employee_id == ParseInt(id_match[1])
                 r == Call(e.empRead,
                           get_employee_by_id(emps, employee_id, e.empRead))
             IN  Answer(r, Response("Here is the employee with ID {}:",
                                    <<employee_id>>, <<>>),
                        DataList(r.val), 8, "get_employee_by_id", refs)
        ELSE FallThrough(8, refs)

\* DispatchBody with the id rule tested before the salary rule
DispatchBodyIdFirst(q, emps, refs, e) ==
    IF IsAudioBatch(q) THEN [process_all_audio_files(refs, e) EXCEPT !.branch = 1]
    ELSE IF IsReceiptBatch(q) THEN [process_all_receipts(refs, e) EXCEPT !.branch = 2]
    ELSE IF IsListAll(q) THEN ListAllBranch(emps, refs, e)
    ELSE IF IsHighestSalary(q) THEN HighestSalaryBranch(emps, refs, e)
    ELSE IF IsById(q) THEN IdBranch(q, emps, refs, e)
    ELSE IF IsSalaryEquals(q) THEN SalaryBranch(q, emps, refs, e)
    ELSE IF IsAgeGreater(q) THEN AgeBranch(q, emps, refs, e)
    ELSE IF IsNameStart(q) THEN NameBranch(q, emps, refs, e)
    ELSE FallThrough(9, refs)

\* the body of the try statement; q is the lowercased instruction
DispatchBody(q, emps, refs, e) ==
    IF IsAudioBatch(q) THEN [process_all_audio_files(refs, e) EXCEPT !.branch = 1]
    ELSE IF IsReceiptBatch(q) THEN [process_all_receipts(refs, e) EXCEPT !.branch = 2]
    ELSE IF IsListAll(q) THEN ListAllBranch(emps, refs, e)
    ELSE IF IsHighestSalary(q) THEN HighestSalaryBranch(emps, refs, e)
    ELSE IF IsSalaryEquals(q) THEN SalaryBranch(q, emps, refs, e)
    ELSE IF IsAgeGreater(q) THEN AgeBranch(q, emps, refs, e)
    ELSE IF IsNameStart(q) THEN NameBranch(q, emps, refs, e)
    ELSE IF IsById(q) THEN IdBranch(q, emps, refs, e)
    ELSE FallThrough(9, refs)

\* execute_database_operation without its except clause
execute_database_operation_no_except(query_description, emps, refs, e) ==
    DispatchBody(Lower(query_description), emps, refs, e)

\* query_description.lower(), the try body, and the except clause
execute_database_operation(query_description, emps, refs, e) ==
    LET body == DispatchBody(Lower(query_description), emps, refs, e)
    IN  IF body.raised
        THEN [body EXCEPT !.envelope = ErrorEnvelope, !.raised = FALSE]
        ELSE body

(***************************************************************************)
(* Instructions: up to MaxWords phrases of the vocabulary, joined by one   *)
(* space.  The phrases are:                                                *)
(***************************************************************************)
\*   Audio
\*   summary
\*   get all the urls
\*   refund_req
\*   List all
\*   all employees
\*   highest salary
\*   salary is 50000
\*   Salary
\*   equals
\*   older than 30
\*   age greater than
\*   starts with 'J'
\*   beginning with
\*   ID 7
\*   provide
\*   employees with name
\*   = 042
\*   audio summary
\*   employees with age greater than 25
Vocabulary ==
    <<
       <<"A","u","d","i","o">>,
       <<"s","u","m","m","a","r","y">>,
       <<"g","e","t"," ","a","l","l"," ","t","h","e"," ","u","r","l","s">>,
       <<"r","e","f","u","n","d","_","r","e","q">>,
       <<"L","i","s","t"," ","a","l","l">>,
       <<"a","l","l"," ","e","m","p","l","o","y","e","e","s">>,
       <<"h","i","g","h","e","s","t"," ","s","a","l","a","r","y">>,
       <<"s","a","l","a","r","y"," ","i","s"," ","5","0","0","0","0">>,
       <<"S","a","l","a","r","y">>,
       <<"e","q","u","a","l","s">>,
       <<"o","l","d","e","r"," ","t","h","a","n"," ","3","0">>,
       <<"a","g","e"," ","g","r","e","a","t","e","r"," ","t","h","a","n">>,
       <<"s","t","a","r","t","s"," ","w","i","t","h"," ","'","J","'">>,
       <<"b","e","g","i","n","n","i","n","g"," ","w","i","t","h">>,
       <<"I","D"," ","7">>,
       <<"p","r","o","v","i","d","e">>,
       <<"e","m","p","l","o","y","e","e","s"," ","w","i","t","h"," ","n","a","m","e">>,
       <<"="," ","0","4","2">>,
       <<"a","u","d","i","o"," ","s","u","m","m","a","r","y">>,
       <<"e","m","p","l","o","y","e","e","s"," ","w","i","t","h"," ",
         "a","g","e"," ","g","r","e","a","t","e","r"," ","t","h","a","n"," ","2","5">>
    >>

RECURSIVE Join(_)
Join(words) ==
    IF words = <<>> THEN <<>>
    ELSE IF Len(words) = 1 THEN Vocabulary[words[1]]
    ELSE Vocabulary[words[1]] \o <<" ">> \o Join(Tail(words))

Instructions ==
    UNION { {Join(w) : w \in [1..n -> DOMAIN Vocabulary]} : n \in 0..MaxWords }

(***************************************************************************)
(* The caller of the dispatcher (run_crew): it dispatches one instruction, *)
(* gets the envelope, and may then dispatch another.                       *)
(***************************************************************************)
Env(empRead, receipt, audioList, audio) ==
    [empRead |-> empRead, receipt |-> receipt, audioList |-> audioList,
     audio |-> audio]

NoOp ==
    [op |-> "none", instr |-> <<>>, before |-> <<>>,
     out |-> Outcome(NoEnvelope, FALSE, 0, {}, <<>>, <<>>)]

Done(op, instr, before, out) ==
    [op |-> op, instr |-> instr, before |-> before, out |-> out]

DispatchEnvs ==
    { Env("ok", AllOk, "ok", AllAudioOk),
      Env("throws",
          [n \in ReceiptIds |-> IF n = 2 THEN "no_amount"
                                ELSE IF n = 4 THEN "url_throws"
                                ELSE IF n = 7 THEN "update_throws" ELSE "ok"],
          "throws",
          [id \in AudioIds |-> IF id = 2 THEN "download_fails" ELSE "ok"]),
      Env("raises",
          [n \in ReceiptIds |-> IF n = 1 THEN "extract_raises"
                                ELSE IF n = 10 THEN "update_raises" ELSE "ok"],
          "raises",
          [id \in AudioIds |-> IF id = 5 THEN "raises" ELSE "llm_throws"]),
      Env("ok", AllOk, "ok",
          [id \in AudioIds |-> IF id = 5 THEN "raises" ELSE "ok"]) }

Stores ==
    { <<EmployeePool, [i \in 1..11 |-> FreshRow(i)]>>,
      <<<<EmployeePool[2]>>,
        [i \in 1..8 |-> IF i \in {3, 5} THEN FilledRow(i) ELSE FreshRow(i)]>>,
      <<<<>>, <<>>>> }

Init ==
    /\ \E st \in Stores : employees = st[1] /\ refunds = st[2]
    /\ env \in DispatchEnvs
    /\ pc = "idle"
    /\ last = NoOp
    /\ hist = <<>>
    /\ conn = NoConn

\* run_crew(query), which is execute_database_operation(query)
Dispatch ==
    /\ pc = "idle"
    /\ \E instr \in Instructions :
          LET out == execute_database_operation(instr, employees, refunds, env)
          IN  /\ last' = Done("dispatch", instr, refunds, out)
              /\ refunds' = out.refunds
    /\ pc' = "done"
    /\ UNCHANGED <<employees, env, hist, conn>>

\* the caller has used the envelope and is ready for the next instruction
Return ==
    /\ pc = "done"
    /\ pc' = "idle"
    /\ last' = NoOp
    /\ UNCHANGED <<employees, refunds, env, hist, conn>>

Next == Dispatch \/ Return

Spec == Init /\ [][Next]_vars

(***************************************************************************)
(* Properties of the dispatcher.                                           *)
(***************************************************************************)
Dispatched == pc = "done" /\ last.op = "dispatch"

\* the keyword condition of rule r on the lowercased text q
RuleHolds(r, q) ==
    CASE r = 1 -> IsAudioBatch(q)
      [] r = 2 -> IsReceiptBatch(q)
      [] r = 3 -> IsListAll(q)
      [] r = 4 -> IsHighestSalary(q)
      [] r = 5 -> IsSalaryEquals(q)
      [] r = 6 -> IsAgeGreater(q)
      [] r = 7 -> IsNameStart(q)
      [] r = 8 -> IsById(q)
      [] OTHER -> TRUE

IdResponse == "Here is the employee with ID {}:"
SalaryResponse == "Here are employees with salary {}:"

\* C1: every instruction is handled by the lowest-numbered of the nine rules
\* whose keyword condition holds on the lowercased text; an instruction on
\* which both rule 5 (salary) and rule 8 (id) hold is handled by rule 5 and
\* is never answered by the id rule.
C1_FirstMatchingRuleWins ==
    Dispatched =>
        LET q == Lower(last.instr)
            b == last.out.branch
        IN  /\ b \in 1..9
            /\ RuleHolds(b, q)
            /\ \A r \in 1..(b - 1) : ~RuleHolds(r, q)
            /\ (RuleHolds(5, q) /\ RuleHolds(8, q)
                    => last.out.envelope.response.fmt # IdResponse)

\* rules 5 and 8 both hold, no earlier rule does, and the salary rule answered
C1_Witness ==
    /\ Dispatched
    /\ RuleHolds(5, Lower(last.instr))
    /\ RuleHolds(8, Lower(last.instr))
    /\ last.out.branch = 5
    /\ last.out.envelope.response.fmt = SalaryResponse
    /\ last.out.envelope.response.nums = <<50000>>

\* C2: whatever the instruction and whatever the store and the extraction
\* services do (throwing included), the dispatcher returns a {response, data}
\* envelope with a response text and data that is None or a list, and no
\* exception reaches its caller.
C2_AlwaysAnEnvelope ==
    Dispatched =>
        /\ ~last.out.raised
        /\ last.out.envelope.response.fmt # ""
        /\ DOMAIN last.out.envelope = {"response", "data"}
        /\ last.out.envelope.data.isNone => last.out.envelope.data.rows = <<>>

\* the store client threw during the query of a rule 3..8 and the caller
\* still got an envelope
C2_Witness ==
    /\ Dispatched
    /\ env.empRead = "throws"
    /\ last.out.branch \in 3..8
    /\ last.out.calls # {}
    /\ ~last.out.raised
    /\ last.out.envelope # NoEnvelope
    /\ last.out.envelope.response.fmt # ""

\* C3 (as claimed): when the store operation of a rule 3..8 fails with an
\* exception, the envelope has data = None and a response reporting the
\* failure, never a successful answer with an empty list.
C3_StoreFailureGivesNone ==
    (/\ Dispatched
     /\ last.out.branch \in 3..8
     /\ last.out.calls # {}
     /\ env.empRead \in {"throws", "raises"})
        => /\ last.out.envelope.data.isNone
           /\ last.out.envelope.response.fmt = ErrorEnvelope.response.fmt

\* C4: an instruction on which none of rules 1..8 holds gets data = None and
\* the non-empty not-understood response, raises nothing, calls no helper
\* and leaves both tables as they were.
C4_UnknownInstruction ==
    (Dispatched /\ \A r \in 1..8 : ~RuleHolds(r, Lower(last.instr)))
        => /\ last.out.envelope.data.isNone
           /\ last.out.envelope.response = NotUnderstood.response
           /\ NotUnderstood.response.fmt # ""
           /\ ~last.out.raised
           /\ last.out.calls = {}
           /\ refunds = last.before

\* an instruction of several words, none of them a keyword, was dispatched
C4_Witness ==
    /\ Dispatched
    /\ Len(last.instr) > 4
    /\ \A r \in 1..8 : ~RuleHolds(r, Lower(last.instr))
    /\ last.out.envelope = NotUnderstood

\* C11: a dispatch that resolves to any rule but rule 1 (audio batch) and
\* rule 2 (receipts batch) leaves the refund_requests table as it was, and
\* no step changes the employee table.
C11_QueriesLeaveTablesUnchanged ==
    [][/\ employees' = employees
       /\ (last'.op = "dispatch" /\ last'.out.branch \notin {1, 2})
              => refunds' = refunds]_vars

\* an employee query was answered from a store holding refund rows, which
\* are as they were before the dispatch
C11_Witness ==
    /\ Dispatched
    /\ last.out.branch \in 3..8
    /\ last.out.calls # {}
    /\ last.before # <<>>
    /\ refunds = last.before
    /\ employees # <<>>

\* C13 (as claimed): an instruction containing "all employees" or "list all"
\* is answered with the whole employee table, whatever else it contains.
C13_ListAllWhateverElse ==
    (/\ Dispatched
     /\ env.empRead = "ok"
     /\ IsListAll(Lower(last.instr)))
        => last.out.envelope.data = DataList(employees)

\* C13: an instruction that contains "all employees" or "list all" and
\* matches neither batch rule (rule 1, rule 2) is answered by rule 3 with
\* what get_all_employees returns: the whole employee table in store order
\* when the read succeeds (the empty list when the store client throws),
\* whatever later rules the instruction also matches.
C13_ListAllReturnsTable ==
    (/\ Dispatched
     /\ IsListAll(Lower(last.instr))
     /\ ~IsAudioBatch(Lower(last.instr))
     /\ ~IsReceiptBatch(Lower(last.instr)))
        => /\ last.out.branch = 3
           /\ env.empRead = "ok"
                 => last.out.envelope = Envelope(Response("Here are all employees:",
                                                          <<>>, <<>>),
                                                 DataList(employees))
           /\ env.empRead = "throws"
                 => last.out.envelope.data = DataList(<<>>)

\* "list all" together with the salary rule's words: the three employees
\* come back in store order
C13_Witness ==
    /\ Dispatched
    /\ IsListAll(Lower(last.instr))
    /\ RuleHolds(5, Lower(last.instr))
    /\ env.empRead = "ok"
    /\ employees = EmployeePool
    /\ last.out.envelope.data.rows = EmployeePool

\* the instruction is answered by rule r: r is the first rule that holds
ResolvedBy(r, q) == RuleHolds(r, q) /\ \A e \in 1..(r - 1) : ~RuleHolds(e, q)

\* the first integer literal of an instruction that has one
FirstNumber(q) == ParseInt(SearchDigits(q)[1])

\* C14: for an instruction answered by the age rule ("age greater than N" or
\* "older than N", N its first integer literal, N >= 0) and every employee
\* table the store returns, the data are the employees with age > N: each
\* of them once and nobody else.
C14_AgeGreaterExact ==
    (/\ Dispatched
     /\ env.empRead = "ok"
     /\ ResolvedBy(6, Lower(last.instr))
     /\ SearchDigits(Lower(last.instr)) # <<>>)
        => LET N == FirstNumber(Lower(last.instr))
               rows == last.out.envelope.data.rows
           IN  /\ N >= 0
               /\ last.out.envelope.response.nums = <<N>>
               /\ Range(rows) = {e \in Range(employees) : e.age > N}
               /\ NoRepeat(rows)

\* "employees with age greater than 25" against the three employees: the
\* ones aged 41 and 30 come back, the one aged 25 does not
C14_Witness ==
    /\ Dispatched
    /\ env.empRead = "ok"
    /\ Lower(last.instr) = Lower(Vocabulary[20])
    /\ employees = EmployeePool
    /\ last.out.envelope.data.rows = <<EmployeePool[1], EmployeePool[2]>>

\* C15: an instruction answered by the salary rule that holds an integer
\* literal is answered with the employees whose salary equals the first such
\* literal, each once and nobody else: equality, not a range.
C15_SalaryEquality ==
    (/\ Dispatched
     /\ env.empRead = "ok"
     /\ ResolvedBy(5, Lower(last.instr))
     /\ SearchDigits(Lower(last.instr)) # <<>>)
        => LET v == FirstNumber(Lower(last.instr))
               rows == last.out.envelope.data.rows
           IN  /\ last.out.branch = 5
               /\ last.out.envelope.response = Response(SalaryResponse, <<v>>, <<>>)
               /\ Range(rows) = {e \in Range(employees) : e.salary = v}
               /\ NoRepeat(rows)

\* "salary is 50000" against the three employees: the one paid 50000 comes
\* back, the one paid 90000 does not
C15_Witness ==
    /\ Dispatched
    /\ env.empRead = "ok"
    /\ Lower(last.instr) = Lower(Vocabulary[8])
    /\ employees = EmployeePool
    /\ last.out.envelope.response.nums = <<50000>>
    /\ last.out.envelope.data.rows = <<EmployeePool[1]>>

\* the letters that come right after a phrase "starts with" or "beginning
\* with" of q (after white space and an optional quote)
PhraseLetters(q) ==
    {LetterMatchAt(q, i + 7)[1] :
        i \in {p \in DOMAIN q : /\ MatchAt(q, KW_starts_with, p)
                                /\ LetterMatchAt(q, p + 7) # <<>>}}
    \cup {LetterMatchAt(q, i + 10)[1] :
        i \in {p \in DOMAIN q : /\ MatchAt(q, KW_beginning_with, p)
                                /\ LetterMatchAt(q, p + 10) # <<>>}}

\* C22 (as claimed): an instruction answered by the name rule is answered
\* for the letter that follows its phrase "starts with" / "beginning with",
\* with exactly the employees whose name starts with that letter, also when
\* "with" occurs earlier in the instruction.
C22_LetterFollowsPhrase ==
    (/\ Dispatched
     /\ env.empRead = "ok"
     /\ ResolvedBy(7, Lower(last.instr))
     /\ PhraseLetters(Lower(last.instr)) # {})
        => /\ last.out.branch = 7
           /\ Len(last.out.envelope.response.chars) = 1
           /\ last.out.envelope.response.chars[1] \in PhraseLetters(Lower(last.instr))
           /\ Range(last.out.envelope.data.rows) =
                  {e \in Range(employees) :
                       StartsWithLetter(e.name, last.out.envelope.response.chars[1])}

(***************************************************************************)
(* The batch operations called directly, up to MaxRuns times, with         *)
(* deterministic collaborators (env is fixed for the whole behaviour).     *)
(***************************************************************************)
\* runs in which exactly the receipts of F get no amount
NoAmountRun(F) == [n \in ReceiptIds |-> IF n \in F THEN "no_amount" ELSE "ok"]

ReceiptRuns ==
    {NoAmountRun(F) : F \in SUBSET ReceiptIds}
    \cup {[n \in ReceiptIds |-> IF n \in DOMAIN g THEN g[n] ELSE "ok"] :
             g \in [FirstReceipt..(FirstReceipt + MaxVaried - 1) -> ReceiptKinds]}

BatchEnvs ==
    {Env("ok", r, "ok", AllAudioOk) : r \in ReceiptRuns}
    \cup {Env("ok", AllOk, l, a) : l \in CallOutcomes, a \in [AudioIds -> AudioKinds]}

InitBatch ==
    /\ employees = EmployeePool
    /\ refunds \in RefundTables
    /\ env \in BatchEnvs
    /\ pc = "idle"
    /\ last = NoOp
    /\ hist = <<>>
    /\ conn = NoConn

Ran(op, out) ==
    /\ last' = Done(op, <<>>, refunds, out)
    /\ hist' = Append(hist, Done(op, <<>>, refunds, out))
    /\ refunds' = out.refunds
    /\ UNCHANGED <<employees, env, pc, conn>>

RunReceipts ==
    /\ Len(hist) < MaxRuns
    /\ Ran("receipts", process_all_receipts(refunds, env))

\* the "Process All Images" button; the session's list of refund requests
\* is the table as read by get_refund_requests()
RunImageAnalysis ==
    /\ Len(hist) < MaxRuns
    /\ \E client \in {"supabase", "postgres"} :
          Ran("images", process_all_images(client, refunds, refunds, env))

RunAudio ==
    /\ Len(hist) < MaxRuns
    /\ Ran("audio", process_all_audio_files(refunds, env))

\* audio_processor.process_all_audio_files on the list get_all_audio_urls gives
RunAudioProcessor ==
    /\ Len(hist) < MaxRuns
    /\ Ran("audio_processor",
           audio_processor_process_all_audio_files(
               get_all_audio_urls(refunds, "ok"), refunds, env))

NextBatch == RunReceipts \/ RunImageAnalysis \/ RunAudio \/ RunAudioProcessor

SpecBatch == InitBatch /\ [][NextBatch]_vars

(***************************************************************************)
(* Properties of the batch operations.                                     *)
(***************************************************************************)
NumReceipts == LastReceipt - FirstReceipt + 1
AllReceipts == [k \in 1..NumReceipts |-> FirstReceipt + k - 1]

\* the rows of a table that have an audio_url, in store order
AudioRows(refs) == SelectSeq(refs, LAMBDA r : r.audio_url # NoUrl)
AudioRowIds(refs) == [k \in DOMAIN AudioRows(refs) |-> AudioRows(refs)[k].id]

Processed(run) == run.out.envelope.response.nums[1]
Failed(run) == run.out.envelope.response.nums[2]
Counted(run) == Len(run.out.envelope.response.nums) = 2

\* C5: when a batch returns, processed + failed is the number of candidates:
\* 10 for the receipts, and for the audio the number of rows with an
\* audio_url (the listing having answered; when the listing read throws
\* inside get_all_audio_urls there are no candidates and both counts are 0);
\* every candidate is visited once.
C5_CountsCoverCandidates ==
    \A k \in DOMAIN hist :
        LET run == hist[k]
        IN  /\ run.op = "receipts"
                => /\ Counted(run)
                   /\ Processed(run) + Failed(run) = NumReceipts
                   /\ Len(run.out.attempted) = NumReceipts
                   /\ NoRepeat(run.out.attempted)
            /\ (run.op = "audio" /\ env.audioList = "ok") \/ run.op = "audio_processor"
                => /\ Counted(run)
                   /\ Processed(run) + Failed(run) = Len(AudioRows(run.before))
                   /\ Len(run.out.attempted) = Len(AudioRows(run.before))
                   /\ NoRepeat(run.out.attempted)
            /\ (run.op = "audio" /\ env.audioList = "throws")
                => Counted(run) /\ Processed(run) = 0 /\ Failed(run) = 0

\* a receipts run in which two receipts failed in different ways
C5_Witness ==
    /\ last.op = "receipts"
    /\ env.receipt[1] = "update_raises"
    /\ env.receipt[2] = "url_throws"
    /\ Processed(last) = 8
    /\ Failed(last) = 2

\* C6: a failing item never stops a batch: the run visits every candidate,
\* in order, whatever happened to the earlier ones, and returns.
C6_EveryCandidateVisited ==
    \A k \in DOMAIN hist :
        LET run == hist[k]
        IN  /\ run.op = "receipts" => run.out.attempted = AllReceipts
            /\ (run.op = "audio" /\ env.audioList = "ok") \/ run.op = "audio_processor"
                => run.out.attempted = AudioRowIds(run.before)
            /\ ~run.out.raised

\* the first receipt failed and the last one was still processed
C6_Witness ==
    /\ last.op = "receipts"
    /\ env.receipt[1] \in ReceiptFailures
    /\ last.out.attempted = AllReceipts
    /\ \E i \in DOMAIN last.out.envelope.data.rows :
          last.out.envelope.data.rows[i].row = LastReceipt

\* the receipts whose extraction returns no amount
NoAmountSet == {n \in ReceiptIds : env.receipt[n] = "no_amount"}

\* C7: over the 10 receipts, when exactly the receipts of F get no amount
\* and every other stage succeeds, processed = 10 - |F|, failed = |F|, and
\* no row whose id is in F is written or reported.
C7_NoAmountItemsFailUnwritten ==
    \A k \in DOMAIN hist :
        LET run == hist[k]
        IN  (/\ run.op = "receipts"
             /\ env.receipt = NoAmountRun(NoAmountSet)
             /\ ReceiptIds \subseteq RowIds(run.before))
                => /\ Processed(run) = NumReceipts - Cardinality(NoAmountSet)
                   /\ Failed(run) = Cardinality(NoAmountSet)
                   /\ \A i \in DOMAIN run.before :
                         run.before[i].id \in NoAmountSet
                             => run.out.refunds[i] = run.before[i]
                   /\ \A i \in DOMAIN run.out.envelope.data.rows :
                         run.out.envelope.data.rows[i].row \notin NoAmountSet

\* extraction failed for exactly 3 of the 10: 7 processed, 3 failed
C7_Witness ==
    /\ last.op = "receipts"
    /\ env.receipt = NoAmountRun(NoAmountSet)
    /\ Cardinality(NoAmountSet) = 3
    /\ ReceiptIds \subseteq RowIds(last.before)
    /\ Processed(last) = 7
    /\ Failed(last) = 3

\* C8: a step changes a refund row only for a receipt whose extraction
\* returned a number in that step, and then sets exactly amount (to that
\* number) and image_url; the row of a receipt whose extraction failed keeps
\* every field.
C8_AmountOnlyAfterExtraction ==
    [][\A k \in DOMAIN refunds :
          refunds'[k] # refunds[k]
              => LET id == refunds[k].id
                 IN  /\ id \in ReceiptIds
                     /\ env.receipt[id] \notin
                            {"url_throws", "url_raises", "no_amount", "extract_raises"}
                     /\ Reading(env.receipt[id], id) # None
                     /\ \E b \in {STORAGE_BUCKET, RECEIPTS_BUCKET} :
                           refunds'[k] =
                               [refunds[k] EXCEPT
                                   !.amount = Reading(env.receipt[id], id),
                                   !.image_url = PublicUrl(b, id)]]_vars

\* row 3 held an amount, its extraction failed and it is as before, while
\* row 1 got its amount in the same run
C8_Witness ==
    /\ last.op = "receipts"
    /\ env.receipt[3] = "no_amount"
    /\ Len(last.before) >= 3
    /\ last.before[3] = FilledRow(3)
    /\ refunds[3] = FilledRow(3)
    /\ refunds[1].amount = Some(Amount(1))
    /\ last.before[1].amount = None

\* C9: a second run of process_all_receipts right after a first one, with
\* the same deterministic collaborators, returns the same counts and
\* per-item results, visits the same receipts and leaves the table as the
\* first run left it.
C9_ReceiptsRerunSafe ==
    \A k \in DOMAIN hist :
        (/\ k + 1 \in DOMAIN hist
         /\ hist[k].op = "receipts"
         /\ hist[k + 1].op = "receipts")
            => /\ hist[k + 1].out.envelope = hist[k].out.envelope
               /\ hist[k + 1].out.attempted = hist[k].out.attempted
               /\ hist[k + 1].out.refunds = hist[k].out.refunds

\* two runs in a row, the first of which filled rows in and overwrote a row
\* an earlier run had filled
C9_Witness ==
    /\ Len(hist) >= 2
    /\ hist[1].op = "receipts"
    /\ hist[2].op = "receipts"
    /\ Len(hist[1].before) >= 3
    /\ hist[1].before[3] = FilledRow(3)
    /\ hist[1].out.refunds[3].amount = Some(Amount(3))
    /\ Processed(hist[2]) >= 1
    /\ Failed(hist[2]) >= 1

\* C10: a second run of process_all_audio_files right after a first one,
\* with the same deterministic stubs, starts from the same rows and returns
\* the same per-item summaries and statuses.
C10_AudioRerunSame ==
    \A k \in DOMAIN hist :
        (/\ k + 1 \in DOMAIN hist
         /\ hist[k].op = "audio"
         /\ hist[k + 1].op = "audio")
            => /\ hist[k + 1].before = hist[k].before
               /\ hist[k + 1].out.envelope = hist[k].out.envelope

\* two runs in a row that summarised one row and failed on another
C10_Witness ==
    /\ Len(hist) >= 2
    /\ hist[1].op = "audio"
    /\ hist[2].op = "audio"
    /\ env.audioList = "ok"
    /\ env.audio[2] = "ok"
    /\ env.audio[5] = "download_fails"
    /\ Processed(hist[2]) >= 1
    /\ Failed(hist[2]) >= 1
    /\ hist[2].out.envelope.data.rows[1].summary = Summary(AudioUrl(2))

\* the value a row holds in column col; None for a column the row lacks
Stored(row, col) == IF col \in DOMAIN row THEN Some(row[col]) ELSE None

\* the row of table refs with the given id, as a sequence of 0 or 1 rows
RowWithId(refs, id) == SelectSeq(refs, LAMBDA r : r.id = id)

\* C12 (as claimed): after a batch, every row reported as processed holds the
\* extracted values in the store: summary and transcript after
\* process_all_audio_files, image_url and amount after process_all_receipts.
C12_BatchesStoreWhatTheyReport ==
    \A k \in DOMAIN hist :
        LET run == hist[k]
            rows == run.out.envelope.data.rows
        IN  /\ run.op = "receipts"
                => \A i \in DOMAIN rows :
                      \E r \in Range(RowWithId(run.out.refunds, rows[i].row)) :
                          /\ r.amount = Some(rows[i].amount)
                          /\ r.image_url = rows[i].url
            /\ run.op = "audio"
                => \A i \in DOMAIN rows :
                      rows[i].status = "processed"
                          => \E r \in Range(RowWithId(run.out.refunds, rows[i].id)) :
                                /\ Stored(r, "summary") = Some(rows[i].summary)
                                /\ Stored(r, "transcript") # None

\* the candidate a per-item result is about
ItemOf(run, entry) == IF run.op = "receipts" THEN entry.row ELSE entry.id

\* C20 (as claimed): the per-item results of a batch hold exactly one entry
\* for every candidate, tagged processed or failed, so that their number is
\* processed + failed.
C20_OneResultPerCandidate ==
    \A k \in DOMAIN hist :
        LET run == hist[k]
            rows == run.out.envelope.data.rows
        IN  (run.op \in {"receipts", "audio"} /\ Counted(run))
                => /\ Len(rows) = Processed(run) + Failed(run)
                   /\ \A i \in DOMAIN rows : rows[i].status \in {"processed", "failed"}
                   /\ \A c \in Range(run.out.attempted) :
                         Cardinality({i \in DOMAIN rows : ItemOf(run, rows[i]) = c}) = 1

(***************************************************************************)
(* DatabaseClient (src/database_client.py) over a psycopg2 connection.     *)
(* conn.handle is "none" (self.conn is None), "open", or "closed" (the     *)
(* connection object exists but the link to the server is gone); conn.txn  *)
(* is the state of the connection's transaction: "idle", "open" (a         *)
(* statement ran and nothing was committed or rolled back) or "aborted"    *)
(* (a statement failed inside it).  autocommit is off.                     *)
(*                                                                         *)
(* A call's fault names what the server does during it: "none",            *)
(* "statement_error" (it rejects the statement) or "commit_rejected" (it   *)
(* refuses the commit).  A statement sent over an open connection while    *)
(* the server is unreachable fails and leaves the connection closed.       *)
(***************************************************************************)
ReadFaults == {"none", "statement_error"}
WriteFaults == ReadFaults \cup {"commit_rejected"}

\* connect(): psycopg2.connect succeeds when DATABASE_URL is set and the
\* server is reachable (reachable stands for both); otherwise the except
\* clause sets self.conn = None
connect(reachable) ==
    IF reachable THEN [handle |-> "open", txn |-> "idle"] ELSE NoConn

\* _get_cursor(): reconnect when there is no usable connection, raise
\* ConnectionError when there still is none
get_cursor(c, reachable) ==
    LET c1 == IF c.handle \in {"none", "closed"} THEN connect(reachable) ELSE c
    IN  [conn |-> c1, raised |-> c1.handle = "none"]

\* cursor.execute(...) on an open connection
execute(c, reachable, fault) ==
    IF ~reachable
    THEN [conn |-> [handle |-> "closed", txn |-> "idle"], raised |-> TRUE]
    ELSE IF c.txn = "aborted"
    THEN [conn |-> c, raised |-> TRUE]
    ELSE IF fault = "statement_error"
    THEN [conn |-> [c EXCEPT !.txn = "aborted"], raised |-> TRUE]
    ELSE [conn |-> [c EXCEPT !.txn = "open"], raised |-> FALSE]

\* conn.commit()
commit(c, fault) ==
    IF fault = "commit_rejected"
    THEN [conn |-> [c EXCEPT !.txn = "aborted"], raised |-> TRUE]
    ELSE [conn |-> [c EXCEPT !.txn = "idle"], raised |-> FALSE]

\* conn.rollback(): raises InterfaceError on a closed connection
rollback(c) ==
    IF c.handle = "closed"
    THEN [conn |-> c, raised |-> TRUE]
    ELSE [conn |-> [c EXCEPT !.txn = "idle"], raised |-> FALSE]

\* what a client method did: the value it returned (or raised), whether it
\* sent a statement to the store, the connection it leaves, and the two
\* tables as committed
ClientResult(ret, raised, queried, c, emps, refs) ==
    [ret |-> ret, raised |-> raised, queried |-> queried, conn |-> c,
     employees |-> emps, refunds |-> refs]

\* a read: try: cursor = self._get_cursor(); cursor.execute(SELECT);
\* return rows;  except: return the empty indicator (no rollback)
ClientRead(c, reachable, fault, rows, empty, emps, refs) ==
    LET cur == get_cursor(c, reachable)
        ex == execute(cur.conn, reachable, fault)
    IN  IF cur.raised THEN ClientResult(empty, FALSE, FALSE, cur.conn, emps, refs)
        ELSE IF ex.raised THEN ClientResult(empty, FALSE, TRUE, ex.conn, emps, refs)
        ELSE ClientResult(rows, FALSE, TRUE, ex.conn, emps, refs)

\* a write whose except clause calls self.conn.rollback() without testing
\* self.conn: with no connection the call fails on None and the exception
\* leaves the method
ClientWriteUnguardedRollback(c, reachable, fault, ret, failure, emps2, refs2, emps, refs) ==
    LET cur == get_cursor(c, reachable)
        ex == execute(cur.conn, reachable, fault)
        cm == commit(ex.conn, fault)
        undo == rollback(IF ex.raised THEN ex.conn ELSE cm.conn)
    IN  IF cur.raised
        THEN ClientResult(failure, TRUE, FALSE, cur.conn, emps, refs)
        ELSE IF ex.raised \/ cm.raised
        THEN ClientResult(failure, undo.raised, TRUE, undo.conn, emps, refs)
        ELSE ClientResult(ret, FALSE, TRUE, cm.conn, emps2, refs2)

\* a write: try: cursor; execute; fetchone; commit; return the record;
\* except: if self.conn: self.conn.rollback(); return the failure indicator.
\* An exception of rollback() leaves through the except clause.
ClientWrite(c, reachable, fault, ret, failure, emps2, refs2, emps, refs) ==
    LET cur == get_cursor(c, reachable)
        ex == execute(cur.conn, reachable, fault)
        cm == commit(ex.conn, fault)
        undo == rollback(IF ex.raised THEN ex.conn ELSE cm.conn)
    IN  IF cur.raised
        THEN ClientResult(failure, FALSE, FALSE, cur.conn, emps, refs)
        ELSE IF ex.raised \/ cm.raised
        THEN ClientResult(failure, undo.raised, TRUE, undo.conn, emps, refs)
        ELSE ClientResult(ret, FALSE, TRUE, cm.conn, emps2, refs2)

\* ORDER BY id
RECURSIVE SortById(_)
SortById(rows) ==
    IF rows = <<>> THEN <<>>
    ELSE LET least == CHOOSE k \in DOMAIN rows :
                          \A j \in DOMAIN rows : rows[k].id <= rows[j].id
         IN  <<rows[least]>>
             \o SortById(SubSeq(rows, 1, least - 1)
                         \o SubSeq(rows, least + 1, Len(rows)))

\* fetchone(): the first row of the result, or None
FetchOne(rows) == IF rows # <<>> THEN Some(rows[1]) ELSE None

\* SET into an amount column that keeps whole units only (amounts are in
\* hundredths)
MergeWholeUnits(row, data) ==
    [f \in DOMAIN row |->
        IF f \in DOMAIN data
        THEN IF f = "amount" /\ data[f] # None
             THEN Some((data[f][1] \div 100) * 100)
             ELSE data[f]
        ELSE row[f]]

\* SET key = value for every key of data
Merge(row, data) ==
    [f \in DOMAIN row |-> IF f \in DOMAIN data THEN data[f] ELSE row[f]]

\* UPDATE ... SET ... WHERE id = %s
UpdateRows(rows, id, data) ==
    [k \in DOMAIN rows |-> IF rows[k].id = id THEN Merge(rows[k], data) ELSE rows[k]]

\* DELETE ... WHERE id = %s
DeleteRows(rows, id) == SelectSeq(rows, LAMBDA r : r.id # id)

\* the id the store gives an inserted row
NextId(rows) ==
    IF rows = <<>> THEN 1
    ELSE 1 + (CHOOSE m \in {rows[k].id : k \in DOMAIN rows} :
                 \A k \in DOMAIN rows : rows[k].id <= m)

\* INSERT ... RETURNING *
InsertedRow(rows, data) ==
    Employee(NextId(rows), data.name, data.age, data.salary)

DatabaseClient_get_employees(c, reachable, fault, emps, refs) ==
    ClientRead(c, reachable, fault, SortById(emps), <<>>, emps, refs)

DatabaseClient_get_employee_by_id(employee_id, c, reachable, fault, emps, refs) ==
    ClientRead(c, reachable, fault,
               FetchOne(SelectSeq(emps, LAMBDA r : r.id = employee_id)), None,
               emps, refs)

DatabaseClient_get_refund_requests(c, reachable, fault, emps, refs) ==
    ClientRead(c, reachable, fault, SortById(refs), <<>>, emps, refs)

DatabaseClient_get_refund_request_by_id(request_id, c, reachable, fault, emps, refs) ==
    ClientRead(c, reachable, fault,
               FetchOne(SelectSeq(refs, LAMBDA r : r.id = request_id)), None,
               emps, refs)

DatabaseClient_insert_employee(employee_data, c, reachable, fault, emps, refs) ==
    ClientWrite(c, reachable, fault,
                Some(InsertedRow(emps, employee_data)), None,
                Append(emps, InsertedRow(emps, employee_data)), refs, emps, refs)

DatabaseClient_update_employee(employee_id, employee_data, c, reachable, fault, emps, refs) ==
    LET updated == UpdateRows(emps, employee_id, employee_data)
    IN  ClientWrite(c, reachable, fault,
                    FetchOne(SelectSeq(updated, LAMBDA r : r.id = employee_id)),
                    None, updated, refs, emps, refs)

DatabaseClient_delete_employee(employee_id, c, reachable, fault, emps, refs) ==
    ClientWrite(c, reachable, fault,
                \E k \in DOMAIN emps : emps[k].id = employee_id, FALSE,
                DeleteRows(emps, employee_id), refs, emps, refs)

DatabaseClient_update_refund_request(request_id, request_data, c, reachable, fault, emps, refs) ==
    LET updated == UpdateRows(refs, request_id, request_data)
    IN  ClientWrite(c, reachable, fault,
                    FetchOne(SelectSeq(updated, LAMBDA r : r.id = request_id)),
                    None, emps, updated, emps, refs)

\* the operators of get_employees_by_condition
Operators == {"eq", "gt", "lt", "lte", "gte", "like"}

\* SQL LIKE: % stands for any run of characters, _ for one character
RECURSIVE LikeMatch(_, _)
LikeMatch(str, pattern) ==
    IF pattern = <<>> THEN str = <<>>
    ELSE IF Head(pattern) = "%"
    THEN LikeMatch(str, Tail(pattern)) \/ (str # <<>> /\ LikeMatch(Tail(str), pattern))
    ELSE IF Head(pattern) = "_"
    THEN str # <<>> /\ LikeMatch(Tail(str), Tail(pattern))
    ELSE str # <<>> /\ Head(str) = Head(pattern) /\ LikeMatch(Tail(str), Tail(pattern))

\* the comparison an operator stands for; like is LIKE f'%{value}%'
Holds(operator, a, value) ==
    CASE operator = "eq" -> a = value
      [] operator = "gt" -> a > value
      [] operator = "lt" -> a < value
      [] operator = "lte" -> a <= value
      [] operator = "gte" -> a >= value
      [] operator = "like" -> LikeMatch(a, <<"%">> \o value \o <<"%">>)

\* src/database_client.py: an operator outside operator_map raises
\* ValueError before the try statement
DatabaseClient_get_employees_by_condition(column, operator, value, c, reachable, fault, emps, refs) ==
    IF operator \notin Operators
    THEN ClientResult(<<>>, TRUE, FALSE, c, emps, refs)
    ELSE ClientRead(c, reachable, fault,
                    SortById(SelectSeq(emps,
                                 LAMBDA r : Holds(operator, r[column], value))),
                    <<>>, emps, refs)

\* src/supabase_client.py: the if/elif chain adds a filter for the six
\* operators and has no else; the select is executed in every case
SupabaseClient_get_employees_by_condition(column, operator, value, o, emps) ==
    IF o = "throws" THEN <<>>
    ELSE IF operator \in Operators
    THEN SelectSeq(emps, LAMBDA r : Holds(operator, r[column], value))
    ELSE emps

(***************************************************************************)
(* The callers of the store clients (the Streamlit pages): they call one   *)
(* method at a time.  Between calls the server may become unreachable or   *)
(* reachable again.                                                        *)
(***************************************************************************)
\* at most MaxCalls method calls in a behaviour
MaxCalls == 2

\* db_url: DATABASE_URL is set; reachable: the server accepts connections
ClientEnv(db_url, reachable) == [db_url |-> db_url, reachable |-> reachable]

\* psycopg2.connect(db_url) can succeed
CanConnect == env.db_url /\ env.reachable

\* __init__: self.conn = None; self.connect()
DatabaseClient_init(db_url, reachable, emps, refs) ==
    ClientResult(None, FALSE, FALSE, connect(db_url /\ reachable), emps, refs)

\* arguments: an id that exists and one that does not, per table
EmployeeIdArgs == {3, 9}
RefundIdArgs == {2, 9}
EmployeeUpdates == {[age |-> 26]}
NewEmployees == {[name |-> <<"Z","o","e">>, age |-> 50, salary |-> 7]}
\* amounts in hundredths: 42.50 is 4250
AmountArgs == {0, 4250}
Conditions ==
    ({"age"} \X {"gt", "lte", "neq"} \X {30})
    \cup ({"name"} \X {"like", "ilike"} \X {<<"J">>})

ClientTables == <<FreshRow(1), FilledRow(2)>>

InitClient ==
    /\ employees = EmployeePool
    /\ refunds = ClientTables
    /\ \E db_url \in BOOLEAN, reachable \in BOOLEAN :
          LET made == DatabaseClient_init(db_url, reachable, EmployeePool, ClientTables)
          IN  /\ env = ClientEnv(db_url, reachable)
              /\ conn = made.conn
              /\ last = Done("DatabaseClient", [fault |-> "none"],
                             [employees |-> EmployeePool, refunds |-> ClientTables,
                              conn |-> NoConn, reachable |-> db_url /\ reachable],
                             made)
    /\ pc = "idle"
    /\ hist = <<>>

Before ==
    [employees |-> employees, refunds |-> refunds, conn |-> conn,
     reachable |-> CanConnect]

Called(op, args, out) ==
    /\ Len(hist) < MaxCalls
    /\ last' = Done(op, args, Before, out)
    /\ hist' = Append(hist, Done(op, args, Before, out))
    /\ employees' = out.employees
    /\ refunds' = out.refunds
    /\ conn' = out.conn
    /\ UNCHANGED <<env, pc>>

GetEmployees ==
    \E fault \in ReadFaults :
        Called("get_employees", [fault |-> fault],
               DatabaseClient_get_employees(conn, CanConnect, fault,
                                            employees, refunds))

GetEmployeeById ==
    \E id \in EmployeeIdArgs, fault \in ReadFaults :
        Called("get_employee_by_id", [id |-> id, fault |-> fault],
               DatabaseClient_get_employee_by_id(id, conn, CanConnect, fault,
                                                 employees, refunds))

GetEmployeesByCondition ==
    \E cond \in Conditions, fault \in {"none"} :
        Called("get_employees_by_condition",
               [column |-> cond[1], operator |-> cond[2], value |-> cond[3],
                fault |-> fault],
               DatabaseClient_get_employees_by_condition(
                   cond[1], cond[2], cond[3], conn, CanConnect, fault,
                   employees, refunds))

\* the same call on a SupabaseClient, whose request succeeds or throws
SupabaseGetEmployeesByCondition ==
    \E cond \in Conditions, o \in {"ok", "throws"} :
        Called("SupabaseClient.get_employees_by_condition",
               [column |-> cond[1], operator |-> cond[2], value |-> cond[3],
                fault |-> o],
               ClientResult(SupabaseClient_get_employees_by_condition(
                                cond[1], cond[2], cond[3], o, employees),
                            FALSE, TRUE, conn, employees, refunds))

InsertEmployee ==
    \E data \in NewEmployees, fault \in WriteFaults :
        Called("insert_employee", [data |-> data, fault |-> fault],
               DatabaseClient_insert_employee(data, conn, CanConnect, fault,
                                              employees, refunds))

UpdateEmployee ==
    \E id \in EmployeeIdArgs, data \in EmployeeUpdates, fault \in WriteFaults :
        Called("update_employee", [id |-> id, data |-> data, fault |-> fault],
               DatabaseClient_update_employee(id, data, conn, CanConnect,
                                              fault, employees, refunds))

DeleteEmployee ==
    \E id \in EmployeeIdArgs, fault \in WriteFaults :
        Called("delete_employee", [id |-> id, fault |-> fault],
               DatabaseClient_delete_employee(id, conn, CanConnect, fault,
                                              employees, refunds))

GetRefundRequests ==
    \E fault \in ReadFaults :
        Called("get_refund_requests", [fault |-> fault],
               DatabaseClient_get_refund_requests(conn, CanConnect, fault,
                                                  employees, refunds))

GetRefundRequestById ==
    \E id \in RefundIdArgs, fault \in ReadFaults :
        Called("get_refund_request_by_id", [id |-> id, fault |-> fault],
               DatabaseClient_get_refund_request_by_id(
                   id, conn, CanConnect, fault, employees, refunds))

UpdateRefundRequest ==
    \E id \in RefundIdArgs, v \in AmountArgs, fault \in WriteFaults :
        Called("update_refund_request",
               [id |-> id, data |-> [amount |-> Some(v)], fault |-> fault],
               DatabaseClient_update_refund_request(
                   id, [amount |-> Some(v)], conn, CanConnect, fault,
                   employees, refunds))

\* the server becomes unreachable, or reachable again, before a call
NetworkChange ==
    /\ Len(hist) < MaxCalls
    /\ env' = ClientEnv(env.db_url, ~env.reachable)
    /\ UNCHANGED <<employees, refunds, pc, last, hist, conn>>

\* close(): if self.conn: self.conn.close(); self.conn = None
DatabaseClient_close(c, emps, refs) ==
    ClientResult(None, FALSE, FALSE, NoConn, emps, refs)

Close ==
    Called("close", [fault |-> "none"],
           DatabaseClient_close(conn, employees, refunds))

\* what the user types into "Name Starts With"
Prefixes == {<<"J">>, <<"n">>}

\* src/employee_management.py, "Name Starts With": the page calls
\* get_employees_by_condition("name", "like", f"{starts_with}%")
EmployeeManagement_name_starts_with(starts_with, c, reachable, fault, emps, refs) ==
    DatabaseClient_get_employees_by_condition(
        "name", "like", starts_with \o <<"%">>, c, reachable, fault, emps, refs)

QueryNameStartsWith ==
    \E starts_with \in Prefixes :
        Called("name_starts_with", [prefix |-> starts_with, fault |-> "none"],
               EmployeeManagement_name_starts_with(
                   starts_with, conn, CanConnect, "none", employees, refunds))

\* get_employees_by_name_start of src/database_operations.py, called with
\* the first letter of a prefix
NameStart ==
    \E starts_with \in Prefixes, o \in {"ok", "throws"} :
        Called("get_employees_by_name_start",
               [prefix |-> starts_with, fault |-> o],
               ClientResult(get_employees_by_name_start(employees, starts_with[1], o),
                            FALSE, TRUE, conn, employees, refunds))

NextClient ==
    \/ GetEmployees \/ GetEmployeeById \/ GetEmployeesByCondition
    \/ SupabaseGetEmployeesByCondition
    \/ QueryNameStartsWith \/ NameStart
    \/ InsertEmployee \/ UpdateEmployee \/ DeleteEmployee
    \/ GetRefundRequests \/ GetRefundRequestById \/ UpdateRefundRequest
    \/ NetworkChange \/ Close

SpecClient == InitClient /\ [][NextClient]_vars

(***************************************************************************)
(* Properties of the store clients.                                        *)
(***************************************************************************)
ConditionCalls ==
    {"get_employees_by_condition", "SupabaseClient.get_employees_by_condition"}

\* C16 (as claimed): in both clients, get_employees_by_condition with an
\* operator outside {eq, gt, lt, lte, gte, like} raises to its caller, sends
\* no query and returns no rows.
C16_UnknownOperatorRaises ==
    \A k \in DOMAIN hist :
        (/\ hist[k].op \in ConditionCalls
         /\ hist[k].instr.operator \notin Operators)
            => /\ hist[k].out.raised
               /\ ~hist[k].out.queried
               /\ hist[k].out.ret = <<>>

ListReads == {"get_employees", "get_employees_by_condition", "get_refund_requests"}
SingleReads == {"get_employee_by_id", "get_refund_request_by_id"}
RecordWrites == {"insert_employee", "update_employee", "update_refund_request"}
Writes == RecordWrites \cup {"delete_employee"}

\* the call was made with no usable connection while the server could not
\* be reached
Unreachable(call) ==
    /\ call.before.conn.handle \in {"none", "closed"}
    /\ ~call.before.reachable

ValidArguments(call) ==
    call.op = "get_employees_by_condition" => call.instr.operator \in Operators

\* C17: with no connection and the server unreachable, every DatabaseClient
\* read and write called with valid arguments returns its empty indicator
\* ([] for list reads, None for single reads, insert and update, False for
\* delete), raises nothing, sends nothing and leaves the tables as they were.
C17_UnreachableGivesEmpty ==
    \A k \in DOMAIN hist :
        LET call == hist[k]
        IN  (/\ call.op \in ListReads \cup SingleReads \cup Writes
             /\ Unreachable(call)
             /\ ValidArguments(call))
                => /\ ~call.out.raised
                   /\ ~call.out.queried
                   /\ call.op \in ListReads => call.out.ret = <<>>
                   /\ call.op \in SingleReads \cup RecordWrites
                         => call.out.ret = None
                   /\ call.op = "delete_employee" => call.out.ret = FALSE
                   /\ call.out.employees = call.before.employees
                   /\ call.out.refunds = call.before.refunds
                   /\ call.out.conn = NoConn

\* an update of an existing refund request and a delete of an existing
\* employee, both made while the database could not be reached
C17_Witness ==
    /\ Len(hist) = 2
    /\ hist[1].op = "update_refund_request"
    /\ hist[1].instr.id = 2
    /\ hist[1].before.conn = NoConn
    /\ ~hist[1].before.reachable
    /\ hist[1].out.ret = None
    /\ hist[2].op = "delete_employee"
    /\ hist[2].instr.id = 3
    /\ Unreachable(hist[2])
    /\ hist[2].out.ret = FALSE
    /\ employees = EmployeePool

\* the tables as a call found them and as it left them
TablesBefore(call) == <<call.before.employees, call.before.refunds>>
TablesAfter(call) == <<call.out.employees, call.out.refunds>>

\* the failure indicator of a write: None, or False for delete
ReturnedFailure(call) ==
    IF call.op = "delete_employee" THEN call.out.ret = FALSE
    ELSE call.out.ret = None

\* C18 (as claimed): every DatabaseClient write returns to its caller,
\* either having committed its statement and returning the affected record
\* (True for delete), or, on any failure, rolled back and returning the
\* failure indicator with both tables as before the call.
C18_WritesAtomic ==
    \A k \in DOMAIN hist :
        LET call == hist[k]
        IN  call.op \in Writes
                => /\ ~call.out.raised
                   /\ call.out.conn.txn = "idle"
                   /\ ReturnedFailure(call) => TablesAfter(call) = TablesBefore(call)
                   /\ TablesAfter(call) # TablesBefore(call) => ~ReturnedFailure(call)

\* hist[k] is an update_refund_request that succeeded and hist[k + 1] reads
\* the same id
UpdateThenRead(k) ==
    /\ k + 1 \in DOMAIN hist
    /\ hist[k].op = "update_refund_request"
    /\ ~hist[k].out.raised
    /\ hist[k].out.ret # None
    /\ hist[k + 1].op = "get_refund_request_by_id"
    /\ hist[k + 1].instr.id = hist[k].instr.id

BeginsWith(name, prefix) ==
    /\ Len(name) >= Len(prefix)
    /\ Lower(SubSeq(name, 1, Len(prefix))) = Lower(prefix)

\* C21 (as claimed): a starts-with query that the store answers returns
\* exactly the employees whose name begins with the given prefix, at both
\* call sites: get_employees_by_name_start and the "Name Starts With" query
\* of EmployeeManagement.
C21_StartsWithIsPrefix ==
    \A k \in DOMAIN hist :
        LET call == hist[k]
        IN  (/\ call.op \in {"name_starts_with", "get_employees_by_name_start"}
             /\ call.before.reachable
             /\ call.before.conn.txn # "aborted"
             /\ call.instr.fault \in {"none", "ok"})
                => Range(call.out.ret) =
                       {e \in Range(call.before.employees) :
                            BeginsWith(e.name, call.instr.prefix)}

\* C23 (as claimed): without DATABASE_URL the client fails fast: its
\* construction raises, or at the latest every request made on it raises,
\* instead of being answered with an empty result.
C23_MissingCredentialFailsFast ==
    ~env.db_url
        => \/ (last.op = "DatabaseClient" /\ last.out.raised)
           \/ \A k \in DOMAIN hist :
                 hist[k].op \in ListReads \cup SingleReads \cup Writes
                     => hist[k].out.raised

(***************************************************************************)
(* Model providers: the conversion of a vision reply to an amount          *)
(* (src/ai_agent.py, src/receipt_processor.py) and the primary / fallback  *)
(* methods of RefundProcessing (src/refund_processing.py).                 *)
(***************************************************************************)
\* a reply of a model is at most MaxReply characters of ReplyChars
MaxReply == 3
ReplyChars == {"0", "7", ".", "$"}

RECURSIVE TextsUpTo(_)
TextsUpTo(n) ==
    IF n = 0 THEN {<<>>}
    ELSE LET shorter == TextsUpTo(n - 1)
         IN  shorter \cup {Append(t, c) : t \in shorter, c \in ReplyChars}

Replies ==
    TextsUpTo(MaxReply) \cup {<<"1", ".", "2", ".", "3">>, <<" ", "7", " ">>}

\* str.strip()
RECURSIVE Strip(_)
Strip(s) ==
    IF s = <<>> THEN s
    ELSE IF IsSpace(s[1]) THEN Strip(Tail(s))
    ELSE IF IsSpace(s[Len(s)]) THEN Strip(SubSeq(s, 1, Len(s) - 1))
    ELSE s

\* re.sub(r'[^\d.]', '', s), and ''.join(filter(isdigit or '.', s))
CleanNumber(s) == SelectSeq(s, LAMBDA c : IsDigit(c) \/ c = ".")

DotCount(s) == Cardinality({i \in DOMAIN s : s[i] = "."})

\* a decimal fraction without its trailing zeros
RECURSIVE StripZeros(_)
StripZeros(ds) ==
    IF ds # <<>> /\ ds[Len(ds)] = "0" THEN StripZeros(SubSeq(ds, 1, Len(ds) - 1))
    ELSE ds

\* a float with a finite decimal expansion
Number(whole, frac) == [whole |-> whole, frac |-> frac]
Zero == Number(0, <<>>)

\* float(s) for s of digits and dots: None stands for ValueError
Float(s) ==
    IF DotCount(s) > 1 \/ ~\E i \in DOMAIN s : IsDigit(s[i]) THEN None
    ELSE LET dot == IF DotCount(s) = 1
                    THEN CHOOSE i \in DOMAIN s : s[i] = "."
                    ELSE Len(s) + 1
         IN  Some(Number(ParseInt(SubSeq(s, 1, dot - 1)),
                         StripZeros(SubSeq(s, dot + 1, Len(s)))))

\* `if amount:` on a float or None
Truthy(amount) == amount # None /\ amount[1] # Zero

\* re.search(r'\d+\.?\d*', s): <<>> or <<the matched text>>
SearchNumber(s) ==
    IF \E i \in DOMAIN s : IsDigit(s[i])
    THEN LET start == CHOOSE i \in DOMAIN s :
                          /\ IsDigit(s[i])
                          /\ \A j \in 1..(i - 1) : ~IsDigit(s[j])
             whole == DigitRunEnd(s, start)
             stop == IF whole < Len(s) /\ s[whole + 1] = "."
                     THEN DigitRunEnd(s, whole + 1) ELSE whole
         IN  <<SubSeq(s, start, stop)>>
    ELSE <<>>

\* ImageAnalyzer._run answering 0.0 where the reply has no number
ImageAnalyzer_run_zero_on_failure(reply, o) ==
    IF o = "raises" THEN None
    ELSE IF Float(CleanNumber(Strip(reply))) = None THEN Some(Zero)
    ELSE Float(CleanNumber(Strip(reply)))

\* ImageAnalyzer._run: the chat call raises (o = "raises") or answers reply;
\* every exception, float()'s ValueError included, is caught: None
ImageAnalyzer_run(reply, o) ==
    IF o = "raises" THEN None ELSE Float(CleanNumber(Strip(reply)))

\* ai_agent.extract_amount_from_receipt
ai_agent_extract_amount_from_receipt(reply, o) == ImageAnalyzer_run(reply, o)

\* receipt_processor.extract_amount_from_receipt on the text of the model's
\* response; o = "raises": the download or the model call raises
receipt_processor_extract_amount(reply, o) ==
    IF o = "raises" \/ reply = <<>> THEN None
    ELSE LET text == Lower(Strip(reply))
             amount_match == SearchNumber(text)
             amount_str == CleanNumber(text)
         IN  IF amount_match # <<>> THEN Float(amount_match[1])
             ELSE IF amount_str # <<>> THEN Float(amount_str)
             ELSE None

\* what a primary / fallback method hands back: its value and the providers
\* it called, in order; no exception leaves these methods
Provided(ret, calls) == [ret |-> ret, raised |-> FALSE, calls |-> calls]

\* the OpenAI reply of the fallback branch, cleaned and converted
FallbackAmount(reply, o) ==
    IF o = "raises" THEN None ELSE Float(CleanNumber(Strip(reply)))

\* RefundProcessing.extract_amount_from_receipt with its two providers
RefundProcessing_extract_amount(reply1, o1, reply2, o2) ==
    LET amount == ai_agent_extract_amount_from_receipt(reply1, o1)
    IN  IF Truthy(amount) THEN Provided(amount, <<"primary">>)
        ELSE Provided(FallbackAmount(reply2, o2), <<"primary", "fallback">>)

\* the texts a transcription or summary provider answers
ProviderTexts == {<<>>, <<"h", "i">>, <<"o", "k">>}

\* AudioTranscriber._run: response.text, or None when the call raises
AudioTranscriber_run(text, o) == IF o = "raises" THEN None ELSE Some(text)

\* `if result:` on a str or None
TruthyText(result) == result # None /\ result[1] # <<>>

\* RefundProcessing.transcribe_audio
RefundProcessing_transcribe_audio(text1, o1, text2, o2) ==
    LET result == AudioTranscriber_run(text1, o1)
    IN  IF TruthyText(result) THEN Provided(result, <<"primary">>)
        ELSE IF o2 = "raises" THEN Provided(None, <<"primary", "fallback">>)
        ELSE Provided(Some(text2), <<"primary", "fallback">>)

\* TextSummarizer._run: chain.invoke, no try block
TextSummarizer_run(text, o) == Call(o, Some(text))

\* RefundProcessing.summarize_transcript
RefundProcessing_summarize_transcript(text1, o1, text2, o2) ==
    LET result == TextSummarizer_run(text1, o1)
    IN  IF result.raised THEN Provided(None, <<"primary">>)
        ELSE IF TruthyText(result.val) THEN Provided(result.val, <<"primary">>)
        ELSE IF o2 = "raises" THEN Provided(None, <<"primary", "fallback">>)
        ELSE Provided(Some(text2), <<"primary", "fallback">>)

\* the kind of receipt a reply of the vision model makes
ReplyKind(reply, o) ==
    LET amount == receipt_processor_extract_amount(reply, o)
    IN  IF amount = None THEN "no_amount"
        ELSE IF amount[1] = Zero THEN "zero" ELSE "ok"

ProviderOutcomes == {"ok", "raises"}

InitProviders ==
    /\ employees = EmployeePool
    /\ refunds = ClientTables
    /\ env = Env("ok", AllOk, "ok", AllAudioOk)
    /\ pc = "idle"
    /\ last = NoOp
    /\ hist = <<>>
    /\ conn = NoConn

\* one application of a provider function to inputs drawn for it
Applied(op, args, out) ==
    /\ pc' = "done"
    /\ last' = Done(op, args, refunds, out)
    /\ UNCHANGED <<employees, refunds, env, hist, conn>>

AnalyzeImage ==
    /\ pc = "idle"
    /\ \E reply \in Replies, o \in ProviderOutcomes :
           Applied("ImageAnalyzer", [reply |-> reply, o |-> o],
                   Provided(ai_agent_extract_amount_from_receipt(reply, o), <<"primary">>))

\* one receipt of process_all_receipts whose vision reply is reply
ReadReceipt ==
    /\ pc = "idle"
    /\ \E reply \in Replies, o \in ProviderOutcomes, n \in {1, 2} :
           LET e == Env("ok", [m \in ReceiptIds |-> ReplyKind(reply, o)], "ok", AllAudioOk)
           IN  Applied("receipt_processor", [reply |-> reply, o |-> o, n |-> n],
                       [ret |-> receipt_processor_extract_amount(reply, o),
                        raised |-> FALSE,
                        item |-> ReceiptItem(NewBatch(refunds), n, e)])

ExtractAmount ==
    /\ pc = "idle"
    /\ \E reply1 \in Replies, o1 \in ProviderOutcomes,
          reply2 \in Replies, o2 \in ProviderOutcomes :
           Applied("extract_amount",
                   [reply1 |-> reply1, o1 |-> o1, reply2 |-> reply2, o2 |-> o2],
                   RefundProcessing_extract_amount(reply1, o1, reply2, o2))

TranscribeAudio ==
    /\ pc = "idle"
    /\ \E text1 \in ProviderTexts, o1 \in ProviderOutcomes,
          text2 \in ProviderTexts, o2 \in ProviderOutcomes :
           Applied("transcribe_audio",
                   [reply1 |-> text1, o1 |-> o1, reply2 |-> text2, o2 |-> o2],
                   RefundProcessing_transcribe_audio(text1, o1, text2, o2))

SummarizeTranscript ==
    /\ pc = "idle"
    /\ \E text1 \in ProviderTexts, o1 \in ProviderOutcomes,
          text2 \in ProviderTexts, o2 \in ProviderOutcomes :
           Applied("summarize_transcript",
                   [reply1 |-> text1, o1 |-> o1, reply2 |-> text2, o2 |-> o2],
                   RefundProcessing_summarize_transcript(text1, o1, text2, o2))

NextProviders ==
    \/ AnalyzeImage
    \/ ReadReceipt
    \/ ExtractAmount
    \/ TranscribeAudio
    \/ SummarizeTranscript

SpecProviders == InitProviders /\ [][NextProviders]_vars

(***************************************************************************)
(* Properties of the providers.                                            *)
(***************************************************************************)
\* what each provider of the last call answers on its own
PrimaryAmount == ImageAnalyzer_run(last.instr.reply1, last.instr.o1)
SecondAmount == FallbackAmount(last.instr.reply2, last.instr.o2)
PrimaryText ==
    IF last.instr.o1 = "raises" THEN None ELSE Some(last.instr.reply1)
SecondText ==
    IF last.instr.o2 = "raises" THEN None ELSE Some(last.instr.reply2)

\* C24 (as claimed): the fallback provider is called only when the primary
\* failed; the result of the first provider that succeeds is returned
\* unchanged, for an amount any number, 0 included; when both fail the
\* method returns None; no exception leaves the method.
C24_FirstSuccessWins ==
    /\ last.op = "extract_amount"
        => /\ ~last.out.raised
           /\ "fallback" \in Range(last.out.calls) => PrimaryAmount = None
           /\ last.out.ret =
                  IF PrimaryAmount # None THEN PrimaryAmount ELSE SecondAmount
    /\ last.op \in {"transcribe_audio", "summarize_transcript"}
        => /\ ~last.out.raised
           /\ "fallback" \in Range(last.out.calls) => ~TruthyText(PrimaryText)
           /\ TruthyText(PrimaryText) => last.out.ret = PrimaryText
           /\ (~TruthyText(PrimaryText) /\ ~TruthyText(SecondText))
                  => ~TruthyText(last.out.ret)

\* a cleaned reply float() rejects: no digit in it, or more than one point
Unconvertible(reply) ==
    \/ ~\E i \in DOMAIN reply : IsDigit(reply[i])
    \/ DotCount(reply) > 1

HasDigit(reply) == \E i \in DOMAIN reply : IsDigit(reply[i])

ReportedRows(run) ==
    {run.out.envelope.data.rows[i].row : i \in DOMAIN run.out.envelope.data.rows}

\* C26: the two batches never insert or delete a row: the ids of the table
\* after a run are the ids before it, in the same places; a receipt whose
\* row does not exist is not reported as processed and is counted as failed;
\* a row differs after a receipts run only in image_url and amount, and only
\* when its receipt was processed; the audio batch leaves the table as it was.
C26_RowIdsInvariant ==
    \A k \in DOMAIN hist :
        LET run == hist[k]
            missing == ReceiptIds \ RowIds(run.before)
        IN  /\ run.op \in {"receipts", "audio"}
                => /\ Len(run.out.refunds) = Len(run.before)
                   /\ \A i \in DOMAIN run.before :
                         run.out.refunds[i].id = run.before[i].id
            /\ run.op = "audio" => run.out.refunds = run.before
            /\ run.op = "receipts"
                => /\ ReportedRows(run) \cap missing = {}
                   /\ Failed(run) >= Cardinality(missing)
                   /\ env.receipt = AllOk => Failed(run) = Cardinality(missing)
                   /\ \A i \in DOMAIN run.before :
                         /\ run.out.refunds[i] =
                                [run.before[i] EXCEPT
                                    !.image_url = run.out.refunds[i].image_url,
                                    !.amount = run.out.refunds[i].amount]
                         /\ run.out.refunds[i] # run.before[i]
                                => run.before[i].id \in ReportedRows(run)

\* rows 9 and 10 do not exist: 8 receipts processed, 2 failed, no row added
C26_Witness ==
    /\ last.op = "receipts"
    /\ env.receipt = AllOk
    /\ RowIds(last.before) = 1..8
    /\ Processed(last) = 8
    /\ Failed(last) = 2
    /\ RowIds(last.out.refunds) = 1..8

(***************************************************************************)
(* Further properties of the dispatcher.                                   *)
(***************************************************************************)
\* the parameter rule r looks for is not in the lowercased text q: rules 5,
\* 6 and 8 need an integer literal, rule 7 a letter after "with"
ParameterMissing(r, q) ==
    IF r = 7 THEN \A p \in DOMAIN q : LetterMatchAt(q, p) = <<>>
    ELSE ~\E i \in DOMAIN q : IsDigit(q[i])

\* C27: when the first rule that holds is one of rules 5 to 8 and its
\* parameter is missing, the answer is the not-understood envelope with
\* data = None: that rule's branch ends the dispatch, no helper is called,
\* nothing is raised and no later rule is tried.
C27_MissingParameterEndsDispatch ==
    \A r \in 5..8 :
        (/\ Dispatched
         /\ ResolvedBy(r, Lower(last.instr))
         /\ ParameterMissing(r, Lower(last.instr)))
            => /\ last.out.envelope = NotUnderstood
               /\ last.out.envelope.data.isNone
               /\ last.out.branch = r
               /\ last.out.calls = {}
               /\ ~last.out.raised
               /\ refunds = last.before

\* a rule-7 instruction without a letter after "with" that also holds "id"
\* and a number: rule 8 would have answered it
C27_Witness ==
    /\ Dispatched
    /\ ResolvedBy(7, Lower(last.instr))
    /\ ParameterMissing(7, Lower(last.instr))
    /\ IsById(Lower(last.instr))
    /\ SearchDigits(Lower(last.instr)) # <<>>
    /\ last.out.envelope = NotUnderstood
    /\ last.out.branch = 7

(***************************************************************************)
(* EmployeeManagement.delete_employee_form (src/employee_management.py)    *)
(* under Streamlit's execution model: every interaction with a widget      *)
(* reruns the script from the top; st.button returns True only in the run  *)
(* its click triggered; a widget that a run does not render leaves the     *)
(* page and loses its value.  env is the page and the session:             *)
(*   session   st.session_state.employees, None when the key is absent     *)
(*   selected  the id chosen in the selectbox                              *)
(*   checkbox  the confirmation checkbox on the page: absent, unticked or  *)
(*             ticked                                                      *)
(*   pending   the interaction that triggers the next run                  *)
(***************************************************************************)
\* the user interacts at most MaxEvents times
MaxEvents == 4

Page(session, selected, checkbox, pending, reachable) ==
    [session |-> session, selected |-> selected, checkbox |-> checkbox,
     pending |-> pending, reachable |-> reachable]

\* one run of delete_employee_form: the page, the store and the connection
\* it leaves, the store methods it called and whether it ended in st.rerun()
FormRun(ui, calls, c, emps, rerun) ==
    [ui |-> ui, calls |-> calls, conn |-> c, employees |-> emps, rerun |-> rerun]

delete_employee_form(ui, c, emps, refs) ==
    LET fetch == DatabaseClient_get_employees(c, ui.reachable, "none", emps, refs)
        fetched == ui.session = None
        session == IF fetched THEN Some(fetch.ret) ELSE ui.session
        c1 == IF fetched THEN fetch.conn ELSE c
        calls1 == IF fetched THEN {"get_employees"} ELSE {}
    IN  IF session[1] = <<>>
        THEN FormRun(Page(session, ui.selected, "absent", "none", ui.reachable),
                     calls1, c1, emps, FALSE)
        ELSE
        LET options == {session[1][k].id : k \in DOMAIN session[1]}
            selected_employee_id ==
                IF ui.selected \in options THEN ui.selected ELSE session[1][1].id
            button == ui.pending = "click"
            confirm == ui.checkbox = "ticked"
        IN  IF ~button
            THEN FormRun(Page(session, selected_employee_id, "absent", "none",
                              ui.reachable),
                         calls1, c1, emps, FALSE)
            ELSE IF ~confirm
            THEN FormRun(Page(session, selected_employee_id, "unticked", "none",
                              ui.reachable),
                         calls1, c1, emps, FALSE)
            ELSE
            LET result == DatabaseClient_delete_employee(
                              selected_employee_id, c1, ui.reachable, "none",
                              emps, refs)
                calls2 == calls1 \cup {"delete_employee"}
            IN  IF result.ret = TRUE
                THEN FormRun(Page(None, selected_employee_id, "ticked", "rerun",
                                  ui.reachable),
                             calls2, result.conn, result.employees, TRUE)
                ELSE FormRun(Page(session, selected_employee_id, "ticked", "none",
                                  ui.reachable),
                             calls2, result.conn, result.employees, FALSE)

InitDeleteForm ==
    /\ employees = EmployeePool
    /\ refunds = ClientTables
    /\ \E reachable \in BOOLEAN :
          /\ env = Page(None, 0, "absent", "load", reachable)
          /\ conn = connect(reachable)
    /\ pc = "run"
    /\ last = NoOp
    /\ hist = <<>>

Interaction(op, ui) ==
    /\ pc = "idle"
    /\ Cardinality({k \in DOMAIN hist : hist[k].op # "run"}) < MaxEvents
    /\ env' = ui
    /\ pc' = "run"
    /\ hist' = Append(hist, [op |-> op, selected |-> ui.selected, calls |-> {}])
    /\ UNCHANGED <<employees, refunds, last, conn>>

\* the user chooses an employee in the selectbox
SelectEmployee ==
    /\ env.session # None
    /\ \E k \in DOMAIN env.session[1] :
          /\ env.session[1][k].id # env.selected
          /\ Interaction("select", [env EXCEPT !.selected = env.session[1][k].id,
                                                 !.pending = "select"])

\* the user presses "Delete Employee"
PressDelete ==
    /\ env.session # None
    /\ env.session[1] # <<>>
    /\ Interaction("click", [env EXCEPT !.pending = "click"])

\* the user ticks the confirmation checkbox, which is on the page
TickConfirm ==
    /\ env.checkbox = "unticked"
    /\ Interaction("tick", [env EXCEPT !.checkbox = "ticked", !.pending = "tick"])

\* Streamlit runs the script
ScriptRun ==
    /\ pc = "run"
    /\ LET out == delete_employee_form(env, conn, employees, refunds)
       IN  /\ env' = out.ui
           /\ conn' = out.conn
           /\ employees' = out.employees
           /\ pc' = IF out.rerun THEN "run" ELSE "idle"
           /\ last' = Done("run", env.pending, employees, out)
           /\ hist' = Append(hist, [op |-> "run", selected |-> out.ui.selected,
                                    calls |-> out.calls])
    /\ UNCHANGED refunds

NextDeleteForm ==
    \/ SelectEmployee
    \/ PressDelete
    \/ TickConfirm
    \/ ScriptRun

\* Streamlit reruns the script after every interaction
SpecDeleteForm ==
    InitDeleteForm /\ [][NextDeleteForm]_vars /\ WF_vars(ScriptRun)

\* the user pressed "Delete Employee" and then ticked the confirmation
Confirmed == \E k \in DOMAIN hist : hist[k].op = "tick"

\* some run called db_client.delete_employee
DeleteCalled ==
    \E k \in DOMAIN hist : hist[k].op = "run" /\ "delete_employee" \in hist[k].calls

\* C28 (as claimed): once the user has selected an employee, pressed
\* "Delete Employee" and ticked the confirmation checkbox, a run of the
\* script eventually calls db_client.delete_employee.
C28_ConfirmedDeleteIsCalled == Confirmed ~> DeleteCalled

(***************************************************************************)
(* Further properties of DatabaseClient.                                   *)
(***************************************************************************)
\* C29 (as claimed): every operation ends with the connection outside an
\* aborted transaction, and a read whose statement failed does not make the
\* next, valid operation fail: a get_employees that follows it on a
\* reachable server, with no fault of its own, returns the table.
C29_FailedReadDoesNotStick ==
    /\ conn.txn # "aborted"
    /\ \A k \in DOMAIN hist :
          (/\ k > 1
           /\ hist[k - 1].op \in ListReads \cup SingleReads
           /\ hist[k - 1].instr.fault = "statement_error"
           /\ hist[k].op = "get_employees"
           /\ hist[k].instr.fault = "none"
           /\ hist[k].before.reachable)
              => hist[k].out.ret = SortById(hist[k].before.employees)

(***************************************************************************)
(* The query_database tool (src/langchain_agent.py).  params is a function *)
(* from the keys it holds to their values; None and {} are the function    *)
(* with no key.  o is what the supabase call does: "ok", or "raises" (the  *)
(* request fails, or supabase is None).                                    *)
(***************************************************************************)
ToolOperations ==
    {"get_all", "get_by_id", "get_by_salary", "get_by_age_gt",
     "get_highest_salary", "get_by_name_starts", "insert", "update", "delete"}

ParamKeys == {"id", "name", "age", "salary", "letter"}

ParamValue(key, id) ==
    CASE key = "id" -> id
      [] key = "name" -> <<"Z", "o", "e">>
      [] key = "age" -> 26
      [] key = "salary" -> 50000
      [] key = "letter" -> "j"

\* what the tool returns: a list of rows, one row, {"error": ...} or
\* {"success": ...}; calls are the store requests it issued
ToolResult(kind, val, calls, emps) ==
    [kind |-> kind, val |-> val, raised |-> FALSE, calls |-> calls,
     employees |-> emps]

ToolError(message, calls, emps) == ToolResult("error", message, calls, emps)

\* except Exception as e: return {"error": str(e)}
ToolCaught(calls, emps) == ToolError("str(e)", calls, emps)

ToolGetAll(params, emps, o) ==
    IF o = "raises" THEN ToolCaught({"select"}, emps)
    ELSE ToolResult("rows", emps, {"select"}, emps)

ToolGetById(params, emps, o) ==
    IF "id" \notin DOMAIN params THEN ToolError("ID parameter is required", {}, emps)
    ELSE IF o = "raises" THEN ToolCaught({"select"}, emps)
    ELSE LET data == SelectSeq(emps, LAMBDA r : r.id = params["id"])
         IN  IF data # <<>> THEN ToolResult("row", data[1], {"select"}, emps)
             ELSE ToolError("No employee found with that ID", {"select"}, emps)

ToolGetBySalary(params, emps, o) ==
    IF "salary" \notin DOMAIN params
    THEN ToolError("Salary parameter is required", {}, emps)
    ELSE IF o = "raises" THEN ToolCaught({"select"}, emps)
    ELSE ToolResult("rows", SelectSeq(emps, LAMBDA r : r.salary = params["salary"]),
                    {"select"}, emps)

ToolGetByAgeGt(params, emps, o) ==
    IF "age" \notin DOMAIN params THEN ToolError("Age parameter is required", {}, emps)
    ELSE IF o = "raises" THEN ToolCaught({"select"}, emps)
    ELSE ToolResult("rows", SelectSeq(emps, LAMBDA r : r.age > params["age"]),
                    {"select"}, emps)

ToolGetHighestSalary(params, emps, o) ==
    IF o = "raises" THEN ToolCaught({"select"}, emps)
    ELSE LET top == get_employee_highest_salary(emps, "ok")
         IN  IF top # None THEN ToolResult("row", top[1], {"select"}, emps)
             ELSE ToolError("No employees found", {"select"}, emps)

ToolGetByNameStarts(params, emps, o) ==
    IF "letter" \notin DOMAIN params
    THEN ToolError("Letter parameter is required", {}, emps)
    ELSE IF o = "raises" THEN ToolCaught({"select"}, emps)
    ELSE ToolResult("rows",
                    SelectSeq(emps, LAMBDA r : StartsWithLetter(r.name, params["letter"])),
                    {"select"}, emps)

ToolInsert(params, emps, o) ==
    IF ~({"name", "age", "salary"} \subseteq DOMAIN params)
    THEN ToolError("Name, age, and salary parameters are required", {}, emps)
    ELSE IF o = "raises" THEN ToolCaught({"insert"}, emps)
    ELSE LET row == InsertedRow(emps, params)
         IN  ToolResult("row", row, {"insert"}, Append(emps, row))

\* the update branch sending an empty update_data to the store
ToolUpdateUnchecked(params, emps, o) ==
    IF "id" \notin DOMAIN params THEN ToolError("ID parameter is required", {}, emps)
    ELSE
    LET update_data == [k \in DOMAIN params \cap {"name", "age", "salary"} |-> params[k]]
    IN  IF o = "raises" THEN ToolCaught({"update"}, emps)
        ELSE LET updated == UpdateRows(emps, params["id"], update_data)
                 data == SelectSeq(updated, LAMBDA r : r.id = params["id"])
             IN  IF data # <<>> THEN ToolResult("row", data[1], {"update"}, updated)
                 ELSE ToolError("Failed to update employee or employee not found",
                                {"update"}, updated)

ToolUpdate(params, emps, o) ==
    IF "id" \notin DOMAIN params THEN ToolError("ID parameter is required", {}, emps)
    ELSE
    LET update_data == [k \in DOMAIN params \cap {"name", "age", "salary"} |-> params[k]]
    IN  IF DOMAIN update_data = {}
        THEN ToolError("At least one of name, age, or salary must be provided", {}, emps)
        ELSE IF o = "raises" THEN ToolCaught({"update"}, emps)
        ELSE LET updated == UpdateRows(emps, params["id"], update_data)
                 data == SelectSeq(updated, LAMBDA r : r.id = params["id"])
             IN  IF data # <<>> THEN ToolResult("row", data[1], {"update"}, updated)
                 ELSE ToolError("Failed to update employee or employee not found",
                                {"update"}, updated)

ToolDelete(params, emps, o) ==
    IF "id" \notin DOMAIN params THEN ToolError("ID parameter is required", {}, emps)
    ELSE IF o = "raises" THEN ToolCaught({"delete"}, emps)
    ELSE ToolResult("success", \E k \in DOMAIN emps : emps[k].id = params["id"],
                    {"delete"}, DeleteRows(emps, params["id"]))

query_database(operation, params, emps, o) ==
    CASE operation = "get_all" -> ToolGetAll(params, emps, o)
      [] operation = "get_by_id" -> ToolGetById(params, emps, o)
      [] operation = "get_by_salary" -> ToolGetBySalary(params, emps, o)
      [] operation = "get_by_age_gt" -> ToolGetByAgeGt(params, emps, o)
      [] operation = "get_highest_salary" -> ToolGetHighestSalary(params, emps, o)
      [] operation = "get_by_name_starts" -> ToolGetByNameStarts(params, emps, o)
      [] operation = "insert" -> ToolInsert(params, emps, o)
      [] operation = "update" -> ToolUpdate(params, emps, o)
      [] operation = "delete" -> ToolDelete(params, emps, o)
      [] OTHER -> ToolError("Unknown operation: {operation}", {}, emps)

InitTool ==
    /\ employees \in {EmployeePool, <<>>}
    /\ refunds = ClientTables
    /\ env \in {[store |-> o] : o \in {"ok", "raises"}}
    /\ pc = "idle"
    /\ last = NoOp
    /\ hist = <<>>
    /\ conn = NoConn

QueryDatabase ==
    /\ pc = "idle"
    /\ \E operation \in ToolOperations \cup {"drop"}, keys \in SUBSET ParamKeys,
          id \in EmployeeIdArgs :
           LET params == [k \in keys |-> ParamValue(k, id)]
               out == query_database(operation, params, employees, env.store)
           IN  /\ last' = Done("query_database",
                               [operation |-> operation, params |-> params],
                               employees, out)
               /\ employees' = out.employees
    /\ pc' = "done"
    /\ UNCHANGED <<refunds, env, hist, conn>>

NextTool == QueryDatabase

SpecTool == InitTool /\ [][NextTool]_vars

\* the parameters an operation requires
RequiredParams(operation) ==
    CASE operation \in {"get_by_id", "update", "delete"} -> {"id"}
      [] operation = "get_by_salary" -> {"salary"}
      [] operation = "get_by_age_gt" -> {"age"}
      [] operation = "get_by_name_starts" -> {"letter"}
      [] operation = "insert" -> {"name", "age", "salary"}
      [] OTHER -> {}

InvalidCall(operation, params) ==
    \/ operation \notin ToolOperations
    \/ ~(RequiredParams(operation) \subseteq DOMAIN params)
    \/ operation = "update" /\ DOMAIN params \cap {"name", "age", "salary"} = {}

\* C30: query_database never raises; for an operation outside the nine
\* names, or a known one whose required parameter is missing (an update with
\* an id and none of name, age, salary included), it returns {"error": ...}
\* without a store request, and the table is as before.
C30_ValidatesBeforeStore ==
    last.op = "query_database"
        => /\ ~last.out.raised
           /\ InvalidCall(last.instr.operation, last.instr.params)
                  => /\ last.out.kind = "error"
                     /\ last.out.calls = {}
                     /\ employees = last.before

\* an update with an id and nothing to set, asked of a store that would
\* raise: refused before the store is reached
C30_Witness ==
    /\ last.op = "query_database"
    /\ last.instr.operation = "update"
    /\ DOMAIN last.instr.params = {"id"}
    /\ env.store = "raises"
    /\ last.out.kind = "error"
    /\ last.out.calls = {}

=============================================================================
